---- MODULE Spec2Model ----
(***************************************************************************)
(* Model of the chat server of chat-colaborativo: ChatServer               *)
(* (src/server/server.py), Room and User (src/server/models), the message  *)
(* handlers (src/server/handlers/message_handler.py) and the wire protocol *)
(* (src/common/protocol.py).                                               *)
(*                                                                         *)
(* The server runs on one asyncio event loop.  A task runs without         *)
(* interruption until it suspends; it can suspend only where the code      *)
(* awaits something that is not ready: the next inbound frame, the hub     *)
(* lock when it is taken, an asyncio.gather over sends.  The model keeps   *)
(* the loop's FIFO queue of runnable callbacks (ready) and the task that   *)
(* is running (cur).  The code of a connection task is cut where it may    *)
(* suspend: each piece is an operator from the state (a record of the      *)
(* variables) to the state after it, and an action of the model runs a     *)
(* task from where it is to where it suspends or is back at the head of    *)
(* its read loop.  Network events (a frame arriving, a transport closing)  *)
(* happen only between two callbacks, as in asyncio.                       *)
(*                                                                         *)
(* Text (user names, room names, chat content) is a sequence of            *)
(* one-character strings, so that strip(), lower() and len() are computed. *)
(* Timestamps (datetime.now()) are left out of frames and records: no      *)
(* branch of the server reads them.  User ids (uuid4) are taken to be      *)
(* distinct, so a User object is identified with the connection that       *)
(* registered it.                                                          *)
(***************************************************************************)
EXTENDS Naturals, Sequences, FiniteSets

(* ------------------------------ bounds --------------------------------- *)

\* Number of client connections (one handle_connection task each).
NumConns == 2

\* Number of events on the client side in total: a frame sent, or a
\* transport closed.
MaxEvents == 4

\* The same in the specification that starts from users in rooms.
MaxRoomEvents == 2

\* The same in the specification that records what is written to the
\* transports.
MaxChatEvents == 2

(* ------------------------- program constants --------------------------- *)

\* register_user: if len(username) > 30
MaxUserNameLen == 30

\* CreateRoomHandler: if len(room_name) > 50
MaxRoomNameLen == 50

\* Room.max_history
MaxHistory == 100

(* ------------------------------- text ---------------------------------- *)

UpperLetters == <<"A", "B", "C", "D", "F", "G", "L", "O", "S">>
LowerLetters == <<"a", "b", "c", "d", "f", "g", "l", "o", "s">>

\* str.lower() on one character.
LowerChar(ch) ==
    IF \E i \in DOMAIN UpperLetters : UpperLetters[i] = ch
    THEN LowerLetters[CHOOSE i \in DOMAIN UpperLetters : UpperLetters[i] = ch]
    ELSE ch

\* str.lower()
Lower(s) == [i \in DOMAIN s |-> LowerChar(s[i])]

IsSpace(ch) == ch \in {" ", "\t", "\n"}

RECURSIVE LStrip(_)
LStrip(s) == IF s # <<>> /\ IsSpace(Head(s)) THEN LStrip(Tail(s)) ELSE s

RECURSIVE RStrip(_)
RStrip(s) ==
    IF s # <<>> /\ IsSpace(s[Len(s)]) THEN RStrip(SubSeq(s, 1, Len(s) - 1)) ELSE s

\* str.strip()
Strip(s) == RStrip(LStrip(s))

\* Python's None for a room name.  Every test the server makes on
\* User.current_room and on payload.get("room_name") is a truthiness test or
\* a comparison with a non-empty name, and None and "" are both falsy.
NoRoom == <<>>

General == <<"G", "e", "n", "e", "r", "a", "l">>
Foo == <<"f", "o", "o">>
Bar == <<"b", "a", "r">>
Sistema == <<"S", "i", "s", "t", "e", "m", "a">>

NameAl == <<"a", "l">>
NameALPadded == <<" ", "A", "L", " ">>
NameBo == <<"b", "o">>
TextHi == <<"h", "i">>
TextYo == <<"y", "o">>

NameCy == <<"c", "y">>
NameDi == <<"d", "i">>

Conns == 1 .. NumConns

(* ---------------------------- wire protocol ---------------------------- *)

\* MessageType
MessageTypes ==
    {"connect", "disconnect", "connection_ack", "connection_error",
     "create_room", "join_room", "leave_room", "list_rooms", "rooms_list",
     "room_users", "chat_message", "system_message", "user_joined",
     "user_left", "error"}

\* An inbound frame as the client wrote it: json says whether the text is
\* valid JSON, type is the value of its "type" key, keys the keys of its
\* payload object.
Raw(type, keys, username, room_name, content) ==
    [type |-> type, keys |-> keys, username |-> username,
     room_name |-> room_name, content |-> content, json |-> TRUE]

RawConnect(name) == Raw("connect", {"username"}, name, <<>>, <<>>)
RawDisconnect == Raw("disconnect", {"username"}, <<>>, <<>>, <<>>)
RawCreateRoom(room) == Raw("create_room", {"room_name"}, <<>>, room, <<>>)
RawJoinRoom(room) == Raw("join_room", {"room_name"}, <<>>, room, <<>>)
RawLeaveRoom(room) == Raw("leave_room", {"room_name"}, <<>>, room, <<>>)
RawLeaveCurrent == Raw("leave_room", {}, <<>>, <<>>, <<>>)
RawListRooms == Raw("list_rooms", {}, <<>>, <<>>, <<>>)
RawChat(room, content) ==
    Raw("chat_message", {"room_name", "content"}, <<>>, room, content)
RawChatCurrent(content) == Raw("chat_message", {"content"}, <<>>, <<>>, content)
RawInvalidJson == [Raw("", {}, <<>>, <<>>, <<>>) EXCEPT !.json = FALSE]
RawUnknownType == Raw("bogus", {}, <<>>, <<>>, <<>>)
RawRoomsList == Raw("rooms_list", {}, <<>>, <<>>, <<>>)

\* Message.from_json: json.loads raises JSONDecodeError on invalid JSON and
\* MessageType(data["type"]) raises ValueError on a tag that is no member.
from_json(raw) ==
    IF ~raw.json THEN [ok |-> FALSE, exc |-> "JSONDecodeError"]
    ELSE IF raw.type \notin MessageTypes THEN [ok |-> FALSE, exc |-> "ValueError"]
    ELSE [ok |-> TRUE, exc |-> ""]

\* message.payload.get(key, default)
PayloadGet(m, key, default) ==
    IF key \in m.keys
    THEN CASE key = "username" -> m.username
           [] key = "room_name" -> m.room_name
           [] key = "content" -> m.content
    ELSE default

\* MessageFactory, server to client.  A text built with an f-string is the
\* pair of its template and the name put into it.  The texts are written
\* here without their accents.
Text(template, arg) == [template |-> template, arg |-> arg]

create_connection_error(reason) ==
    [type |-> "connection_error", reason |-> reason]
create_connection_ack(username, user_id) ==
    [type |-> "connection_ack", username |-> username, user_id |-> user_id]
create_error(text) == [type |-> "error", message |-> text]
create_rooms_list(info) == [type |-> "rooms_list", rooms |-> info]
create_room_users(room_name, usernames) ==
    [type |-> "room_users", room_name |-> room_name, users |-> usernames]
create_chat_message(username, room_name, content) ==
    [type |-> "chat_message", username |-> username, room_name |-> room_name,
     content |-> content]
create_system_message(text, room_name) ==
    [type |-> "system_message", content |-> text, room_name |-> room_name]
create_user_joined(username, room_name) ==
    [type |-> "user_joined", username |-> username, room_name |-> room_name]
create_user_left(username, room_name) ==
    [type |-> "user_left", username |-> username, room_name |-> room_name]

(* ------------------------------- state --------------------------------- *)

VARIABLES
    users,      \* ChatServer._users: the connections whose User is in the map
    username,   \* User.username of the User each connection registered
    userRoom,   \* User.current_room
    rooms,      \* ChatServer._rooms: room name -> Room
    nextRoomId, \* identity of the next Room object
    locked,     \* ChatServer._lock is held
    waiters,    \* ChatServer._lock._waiters, in order
    ready,      \* the event loop's queue of runnable callbacks
    cur,        \* the connection whose task is running: {c}, or {}
    pc,         \* where each connection's task is
    msg,        \* the inbound frame each task is handling
    loc,        \* the local variables of each task
    hasUser,    \* handle_connection's user is not None
    gath,       \* the asyncio.gather each task awaits: frame, recipients
    transport,  \* "open" or "closed", per connection
    observed,   \* the connections whose outbound frames are recorded
    outbox,     \* the frames written to each observed transport, in order
    events      \* the number of frames sent and transports closed so far

vars == <<users, username, userRoom, rooms, nextRoomId, locked, waiters, ready,
          cur, pc, msg, loc, hasUser, gath, transport, observed, outbox,
          events>>

\* The state as a record, for the operators that compute what a piece of
\* code does to it.
State ==
    [users |-> users, username |-> username, userRoom |-> userRoom,
     rooms |-> rooms, nextRoomId |-> nextRoomId, locked |-> locked,
     waiters |-> waiters, ready |-> ready, cur |-> cur, pc |-> pc, msg |-> msg,
     loc |-> loc, hasUser |-> hasUser, gath |-> gath, transport |-> transport,
     observed |-> observed, outbox |-> outbox, events |-> events]

\* The next state is S.
Becomes(S) ==
    /\ users' = S.users
    /\ username' = S.username
    /\ userRoom' = S.userRoom
    /\ rooms' = S.rooms
    /\ nextRoomId' = S.nextRoomId
    /\ locked' = S.locked
    /\ waiters' = S.waiters
    /\ ready' = S.ready
    /\ cur' = S.cur
    /\ pc' = S.pc
    /\ msg' = S.msg
    /\ loc' = S.loc
    /\ hasUser' = S.hasUser
    /\ gath' = S.gath
    /\ transport' = S.transport
    /\ observed' = S.observed
    /\ outbox' = S.outbox
    /\ events' = S.events

\* No task is running.
Idle == {}

(* ------------------------------- rooms --------------------------------- *)

\* No user: the value of Room.emptied_by while the room has had no member
\* or has one.
Nobody == {}

\* Room(name, created_by) with its _users and _message_history.  id tells
\* one Room object from a later one of the same name.  emptied_by is a
\* history variable, not a field of Room: the user whose removal left the
\* room without members, {} when it has members or never had one.
NewRoom(id, created_by, members) ==
    [id |-> id, created_by |-> created_by, users |-> members, history |-> <<>>,
     emptied_by |-> Nobody]

\* The Room object a task holds in a local variable.  A Room that is no
\* longer the one in _rooms would have been deleted, which delete_room does
\* to an empty room only, and nothing adds a user to it afterwards: add_user
\* is called on the result of _rooms.get or on a new Room that is stored at
\* once.
RoomObject(S, name, id) ==
    IF name \in DOMAIN S.rooms /\ S.rooms[name].id = id
    THEN S.rooms[name]
    ELSE NewRoom(id, <<>>, {})

\* Room.usernames
usernames(S, room) == {S.username[u] : u \in room.users}

\* Room.is_empty
is_empty(room) == Cardinality(room.users) = 0

\* "room = self._rooms.get(name)" and then "if not room": no Room is stored
\* under the name, or the Room that is has no user.  Room defines __len__,
\* the number of its users, and no __bool__, so a Room without users is
\* false where it is tested as a condition.
not_room(S, name) ==
    name \notin DOMAIN S.rooms \/ Cardinality(S.rooms[name].users) = 0

\* Room.to_dict
to_dict(S, name) ==
    [name |-> name, created_by |-> S.rooms[name].created_by,
     user_count |-> Cardinality(S.rooms[name].users),
     users |-> usernames(S, S.rooms[name])]

\* ChatServer.get_rooms_info
get_rooms_info(S) == {to_dict(S, name) : name \in DOMAIN S.rooms}

\* Room.add_message_to_history as it would be if it kept the oldest
\* max_history records.
add_message_to_history_oldest(history, sender, content) ==
    LET h == Append(history, [username |-> sender, content |-> content]) IN
    IF Len(h) > MaxHistory THEN SubSeq(h, 1, MaxHistory) ELSE h

\* Room.add_message_to_history as it would be if it put the new record in
\* front of the others.
add_message_to_history_in_front(history, sender, content) ==
    LET h == <<[username |-> sender, content |-> content]>> \o history IN
    IF Len(h) > MaxHistory THEN SubSeq(h, 1, MaxHistory) ELSE h

\* Room.add_message_to_history
add_message_to_history(history, sender, content) ==
    LET h == Append(history, [username |-> sender, content |-> content]) IN
    IF Len(h) > MaxHistory THEN SubSeq(h, Len(h) - MaxHistory + 1, Len(h)) ELSE h

\* Room.add_user, with User.join_room, for a user that is not in the room.
add_user(S, c, name) ==
    [S EXCEPT !.rooms[name].users = @ \cup {c},
              !.rooms[name].emptied_by = Nobody,
              !.userRoom[c] = name]

\* Room.remove_user as it would be without its call of User.leave_room.
remove_user_only(S, c, name) ==
    [S EXCEPT !.rooms[name].users = @ \ {c},
              !.rooms[name].emptied_by =
                  IF S.rooms[name].users = {c} THEN {c} ELSE Nobody]

\* Room.remove_user, with User.leave_room, for a user that is in the room.
remove_user(S, c, name) ==
    [S EXCEPT !.rooms[name].users = @ \ {c},
              !.rooms[name].emptied_by =
                  IF S.rooms[name].users = {c} THEN {c} ELSE Nobody,
              !.userRoom[c] = NoRoom]

(* --------------------------- tasks and loop ---------------------------- *)

NoMsg == [Raw("", {}, <<>>, <<>>, <<>>) EXCEPT !.json = FALSE]

\* The locals of a connection task: name is the username of register_user,
\* arg the room name the handler works on, lname and lid the room_name and
\* the Room of leave_room, rid the Room of join_room or
\* create_room_and_join, stack the places the calls in progress return to,
\* after where the task goes on once it has the lock.  Two more are history
\* variables: entry is the user's current_room when the frame was taken up,
\* outcome the branch by which the operation on the frame ended.
NoLocals ==
    [name |-> <<>>, arg |-> <<>>, lname |-> <<>>, lid |-> 0, rid |-> 0,
     stack |-> <<>>, after |-> "", entry |-> <<>>, outcome |-> ""]

NoGather == [frame |-> create_error(Text("", <<>>)), to |-> {}]

TaskItem(c) == [kind |-> "task", c |-> c]
SendsItem(c) == [kind |-> "sends", c |-> c]
DoneItem(c) == [kind |-> "done", c |-> c]

\* websocket.send on each transport of T as it would be if one send that
\* raises made the others fail: nothing is written when a transport of T is
\* not open.
send_unless_one_fails(S, T, frame) ==
    [S EXCEPT !.outbox =
        [d \in Conns |->
            IF d \in T /\ d \in S.observed
                 /\ \A e \in T : S.transport[e] = "open"
            THEN Append(S.outbox[d], frame)
            ELSE S.outbox[d]]]

\* websocket.send on each transport of T as it would be if the peer read a
\* frame written later before the frames written earlier.
send_in_front(S, T, frame) ==
    [S EXCEPT !.outbox =
        [d \in Conns |->
            IF d \in T /\ S.transport[d] = "open" /\ d \in S.observed
            THEN <<frame>> \o S.outbox[d]
            ELSE S.outbox[d]]]

\* websocket.send(frame) on each transport of T: the frame is written when
\* the transport is open; on a closed one send raises, and the callers
\* (User.send_message, gather(return_exceptions=True), the except clause of
\* handle_connection) swallow the exception.
send(S, T, frame) ==
    [S EXCEPT !.outbox =
        [d \in Conns |->
            IF d \in T /\ S.transport[d] = "open" /\ d \in S.observed
            THEN Append(S.outbox[d], frame)
            ELSE S.outbox[d]]]

\* The task goes on at L.
Goto(S, c, L) == [S EXCEPT !.pc[c] = L]

\* The operation on the frame ends by the branch r.
Outcome(S, c, r) == [S EXCEPT !.loc[c].outcome = r]

\* "async with self._lock" on entry: Lock.acquire takes a free lock that
\* nobody waits for without suspending; otherwise the task queues and
\* suspends.  L is where it goes on with the lock.
acquire(S, c, L) ==
    IF ~S.locked /\ S.waiters = <<>>
    THEN [S EXCEPT !.locked = TRUE, !.pc[c] = L]
    ELSE [S EXCEPT !.waiters = Append(@, c), !.pc[c] = "acquire",
                   !.loc[c].after = L, !.cur = Idle]

\* "async with self._lock" on exit: Lock.release, whose _wake_up_first makes
\* the first waiter runnable.
release(S) ==
    [S EXCEPT !.locked = FALSE,
              !.ready = IF S.waiters # <<>>
                        THEN Append(@, TaskItem(Head(S.waiters)))
                        ELSE @]

\* Room.broadcast and _broadcast_to_all: one send per recipient, gathered.
\* With no recipient there is nothing to await and the task goes on at L;
\* else the sends are queued behind what is runnable and the task suspends.
\* Of the recipients, gath keeps those whose transport is observed: a send
\* to another one changes nothing that is recorded.
gather(S, c, frame, T, L) ==
    IF T = {}
    THEN Goto(S, c, L)
    ELSE [S EXCEPT !.pc[c] = L,
                   !.gath[c] = IF T \cap S.observed = {} THEN NoGather
                               ELSE [frame |-> frame, to |-> T \cap S.observed],
                   !.ready = Append(@, SendsItem(c)),
                   !.cur = Idle]

\* The task calls a coroutine that will return to L.
Call(S, c, L) == [S EXCEPT !.loc[c].stack = <<L>> \o @]

\* The coroutine in progress returns.
Return(S, c) ==
    [S EXCEPT !.pc[c] = Head(S.loc[c].stack), !.loc[c].stack = Tail(@)]

(* ----------------------- leave_room, delete_room ----------------------- *)

\* _broadcast_to_all(rooms_list of get_rooms_info()), then on at L.
broadcast_rooms_list(S, c, L) ==
    gather(S, c, create_rooms_list(get_rooms_info(S)), S.users, L)

(* leave_room: "if not room", or the user is not in the room (it returns   *)
(* False); else Room.remove_user and the user_left notification to those   *)
(* who remain.                                                             *)
leave_room(S, c, name) ==
    IF not_room(S, name)
    THEN Return(S, c)
    ELSE IF c \notin S.rooms[name].users
    THEN Return(S, c)
    ELSE gather([remove_user(S, c, name) EXCEPT
                    !.loc[c].lname = name, !.loc[c].lid = S.rooms[name].id],
                c, create_user_left(S.username[c], name),
                S.rooms[name].users \ {c}, "leave_room_users")

(* leave_room as it would be if those who remain were not sent the room's  *)
(* users.                                                                  *)
leave_room_users_unsent(S, c) == Goto(S, c, "leave_room_collect")

(* leave_room: the room's users to those who remain, if any.               *)
leave_room_users(S, c) ==
    LET name == S.loc[c].lname
        room == RoomObject(S, name, S.loc[c].lid) IN
    gather(S, c, create_room_users(name, usernames(S, room)),
           IF is_empty(room) THEN {} ELSE room.users, "leave_room_collect")

\* leave_room: if room.is_empty and room_name != "General"
LeaveDeletes(room, name) == is_empty(room) /\ name # General

\* delete_room: if room_name == "General": return False
DeleteRefused(name) == name = General

(* delete_room up to its "async with self._lock".  It returns to           *)
(* leave_room, which returns.                                              *)
delete_room(S, c, name) ==
    IF DeleteRefused(name)
    THEN Return(S, c)
    ELSE acquire(S, c, "delete_room_locked")

(* leave_room: for an empty room other than General delete_room is called; *)
(* else the rooms list goes to every user.  Then leave_room returns.       *)
leave_room_collect(S, c) ==
    LET name == S.loc[c].lname
        room == RoomObject(S, name, S.loc[c].lid) IN
    IF LeaveDeletes(room, name)
    THEN delete_room(S, c, name)
    ELSE broadcast_rooms_list(Return(S, c), c, Head(S.loc[c].stack))

(* delete_room with the lock as it would be if a Room without users were   *)
(* true as a condition: the room, if it is there and empty, is deleted and *)
(* the rooms list is sent to every user while the lock is held.            *)
delete_room_locked_if_empty(S, c) ==
    LET name == S.loc[c].lname IN
    IF name \in DOMAIN S.rooms /\ is_empty(S.rooms[name])
    THEN broadcast_rooms_list(
             [S EXCEPT !.rooms = [n \in DOMAIN S.rooms \ {name} |-> S.rooms[n]]],
             c, "delete_room_release")
    ELSE Return(release(S), c)

(* delete_room with the lock, "if room and room.is_empty": the room is     *)
(* deleted and the rooms list is sent to every user while the lock is      *)
(* held; else delete_room returns False.  A Room that is empty is false as *)
(* a condition, so the test fails for every room.                          *)
delete_room_locked(S, c) ==
    LET name == S.loc[c].lname IN
    IF ~not_room(S, name) /\ is_empty(S.rooms[name])
    THEN broadcast_rooms_list(
             [S EXCEPT !.rooms = [n \in DOMAIN S.rooms \ {name} |-> S.rooms[n]]],
             c, "delete_room_release")
    ELSE Return(release(S), c)

(* delete_room leaves its "async with self._lock" and returns True, and    *)
(* leave_room returns.                                                     *)
delete_room_release(S, c) == Return(release(S), c)

(* -------------------------- disconnect_user ---------------------------- *)

(* disconnect_user: async with self._lock                                  *)
disconnect_user_lock(S, c) == acquire(S, c, "disconnect_user_locked")

(* disconnect_user as it would be if it did not leave the user's room.     *)
disconnect_user_without_leave(S, c) == disconnect_user_lock(S, c)

(* disconnect_user: a user that is in a room leaves it.                    *)
disconnect_user(S, c) ==
    IF S.userRoom[c] # NoRoom
    THEN leave_room(Call(S, c, "disconnect_user_lock"), c, S.userRoom[c])
    ELSE disconnect_user_lock(S, c)

(* disconnect_user with the lock as it would be if it told every user the  *)
(* rooms after the user is taken out of _users.                            *)
disconnect_user_locked_announcing(S, c) ==
    broadcast_rooms_list(Return(release([S EXCEPT !.users = @ \ {c}]), c), c,
                         Head(S.loc[c].stack))

(* disconnect_user with the lock: the user is taken out of _users.         *)
disconnect_user_locked(S, c) ==
    Return(release([S EXCEPT !.users = @ \ {c}]), c)

(* ------------------------------ join_room ------------------------------ *)

(* join_room from _rooms.get as it would be if the user_joined             *)
(* notification went to everybody in the room, the new member included.    *)
join_room_get_to_all(S, c) ==
    LET name == S.loc[c].arg IN
    IF not_room(S, name)
    THEN Goto(send(Outcome(S, c, "room_missing"), {c},
                   create_error(Text("La sala '{}' no existe", name))),
              c, "loop")
    ELSE IF c \in S.rooms[name].users
    THEN Goto(Outcome(S, c, "already_in_room"), c, "loop")
    ELSE gather([add_user(S, c, name) EXCEPT
                    !.loc[c].rid = S.rooms[name].id, !.loc[c].outcome = "joined"],
                c, create_user_joined(S.username[c], name),
                S.rooms[name].users \cup {c}, "join_room_users")

(* join_room from _rooms.get: "if not room" (the error that the room does  *)
(* not exist), or the user is in the room (add_user returns False), or     *)
(* Room.add_user and the user_joined notification to the others in the     *)
(* room.                                                                   *)
join_room_get(S, c) ==
    LET name == S.loc[c].arg IN
    IF not_room(S, name)
    THEN Goto(send(Outcome(S, c, "room_missing"), {c},
                   create_error(Text("La sala '{}' no existe", name))),
              c, "loop")
    ELSE IF c \in S.rooms[name].users
    THEN Goto(Outcome(S, c, "already_in_room"), c, "loop")
    ELSE gather([add_user(S, c, name) EXCEPT
                    !.loc[c].rid = S.rooms[name].id, !.loc[c].outcome = "joined"],
                c, create_user_joined(S.username[c], name),
                S.rooms[name].users \ {c}, "join_room_users")

(* join_room as it would be without leaving the current room first.        *)
join_room_without_leave(S, c, name) ==
    join_room_get([S EXCEPT !.loc[c].arg = name], c)

(* join_room as it would be if a user that is in a room left it first,     *)
(* whatever room it asks for.                                              *)
join_room_leaving_always(S, c, name) ==
    LET S1 == [S EXCEPT !.loc[c].arg = name] IN
    IF S.userRoom[c] # NoRoom
    THEN leave_room(Call(S1, c, "join_room_get"), c, S.userRoom[c])
    ELSE join_room_get(S1, c)

(* join_room up to _rooms.get: a user that is in another room leaves it    *)
(* first.                                                                  *)
join_room(S, c, name) ==
    LET S1 == [S EXCEPT !.loc[c].arg = name] IN
    IF S.userRoom[c] # NoRoom /\ S.userRoom[c] # name
    THEN leave_room(Call(S1, c, "join_room_get"), c, S.userRoom[c])
    ELSE join_room_get(S1, c)

(* join_room as it would be if the room's users went to the others in the  *)
(* room only, as user_joined does.                                         *)
join_room_users_to_others(S, c) ==
    LET name == S.loc[c].arg
        room == RoomObject(S, name, S.loc[c].rid) IN
    gather(S, c, create_room_users(name, usernames(S, room)), room.users \ {c},
           "join_room_welcome")

(* join_room: the room's users to everybody in the room.                   *)
join_room_users(S, c) ==
    LET name == S.loc[c].arg
        room == RoomObject(S, name, S.loc[c].rid) IN
    gather(S, c, create_room_users(name, usernames(S, room)), room.users,
           "join_room_welcome")

(* join_room: the welcome to the user, then the rooms list to every user.  *)
join_room_welcome(S, c) ==
    LET name == S.loc[c].arg IN
    broadcast_rooms_list(
        send(S, {c}, create_system_message(
                         Text("Te has unido a la sala '{}'", name), name)),
        c, "loop")

(* ------------------------ create_room_and_join ------------------------- *)

(* create_room_and_join: async with self._lock                             *)
create_room_and_join_lock(S, c) == acquire(S, c, "create_room_and_join_locked")

(* create_room_and_join up to its "async with self._lock": a creator that  *)
(* is in a room leaves it first.                                           *)
create_room_and_join(S, c, name) ==
    LET S1 == [S EXCEPT !.loc[c].arg = name] IN
    IF S.userRoom[c] # NoRoom
    THEN leave_room(Call(S1, c, "create_room_and_join_lock"), c, S.userRoom[c])
    ELSE create_room_and_join_lock(S1, c)

(* create_room_and_join with the lock as it would be without its test of   *)
(* the name: the room is stored whether or not one of the name is there.   *)
create_room_and_join_locked_overwriting(S, c) ==
    LET name == S.loc[c].arg
        room == NewRoom(S.nextRoomId, S.username[c], {c})
        S1 == [S EXCEPT
                  !.rooms = [n \in DOMAIN S.rooms \cup {name} |->
                                IF n = name THEN room ELSE S.rooms[n]],
                  !.userRoom[c] = name,
                  !.nextRoomId = @ + 1,
                  !.loc[c].rid = S.nextRoomId,
                  !.loc[c].outcome = "created"] IN
    gather(release(S1), c,
           create_system_message(Text("Se ha creado la sala '{}'", name), NoRoom),
           S.users, "create_room_and_join_list")

(* create_room_and_join with the lock.  The name exists: it returns False  *)
(* and CreateRoomHandler sends the error.  Else the room is created with   *)
(* the creator in it, the lock is released and the system message is sent  *)
(* to every user.                                                          *)
create_room_and_join_locked(S, c) ==
    LET name == S.loc[c].arg IN
    IF name \in DOMAIN S.rooms
    THEN Goto(send(Outcome(release(S), c, "room_exists"), {c},
                   create_error(Text("La sala '{}' ya existe", name))),
              c, "loop")
    ELSE LET room == NewRoom(S.nextRoomId, S.username[c], {c})
             S1 == [S EXCEPT
                       !.rooms = [n \in DOMAIN S.rooms \cup {name} |->
                                     IF n = name THEN room ELSE S.rooms[n]],
                       !.userRoom[c] = name,
                       !.nextRoomId = @ + 1,
                       !.loc[c].rid = S.nextRoomId,
                       !.loc[c].outcome = "created"] IN
         gather(release(S1), c,
                create_system_message(Text("Se ha creado la sala '{}'", name),
                                      NoRoom),
                S.users, "create_room_and_join_list")

(* create_room_and_join: the rooms list to every user.                     *)
create_room_and_join_list(S, c) ==
    broadcast_rooms_list(S, c, "create_room_and_join_confirm")

(* create_room_and_join as it would be if the welcome were sent before the *)
(* room's users.                                                           *)
create_room_and_join_confirm_welcome_first(S, c) ==
    LET name == S.loc[c].arg
        room == RoomObject(S, name, S.loc[c].rid) IN
    Goto(send(send(S, {c}, create_system_message(
                               Text("Has creado y te has unido a la sala '{}'",
                                    name),
                               name)),
              {c}, create_room_users(name, usernames(S, room))),
         c, "loop")

(* create_room_and_join: the room's users and the welcome to the creator.  *)
create_room_and_join_confirm(S, c) ==
    LET name == S.loc[c].arg
        room == RoomObject(S, name, S.loc[c].rid) IN
    Goto(send(send(S, {c}, create_room_users(name, usernames(S, room))),
              {c}, create_system_message(
                       Text("Has creado y te has unido a la sala '{}'", name),
                       name)),
         c, "loop")

(* -------------------------- broadcast_message -------------------------- *)

(* broadcast_message as it would be if the room's broadcast excluded the   *)
(* sender.                                                                 *)
broadcast_message_to_others(S, c, name, content) ==
    IF not_room(S, name)
    THEN Goto(Outcome(S, c, "chat_room_missing"), c, "loop")
    ELSE IF c \notin S.rooms[name].users
    THEN Goto(send(Outcome(S, c, "not_in_room"), {c},
                   create_error(Text("No estas en esta sala", <<>>))),
              c, "loop")
    ELSE gather([S EXCEPT !.rooms[name].history =
                              add_message_to_history(@, S.username[c], content),
                          !.loc[c].outcome = "sent"],
                c, create_chat_message(S.username[c], name, content),
                S.rooms[name].users \ {c}, "loop")

(* broadcast_message as it would be if the message went to every user of   *)
(* the server.                                                             *)
broadcast_message_to_all(S, c, name, content) ==
    IF not_room(S, name)
    THEN Goto(Outcome(S, c, "chat_room_missing"), c, "loop")
    ELSE IF c \notin S.rooms[name].users
    THEN Goto(send(Outcome(S, c, "not_in_room"), {c},
                   create_error(Text("No estas en esta sala", <<>>))),
              c, "loop")
    ELSE gather([S EXCEPT !.rooms[name].history =
                              add_message_to_history(@, S.username[c], content),
                          !.loc[c].outcome = "sent"],
                c, create_chat_message(S.username[c], name, content),
                S.users, "loop")

(* broadcast_message: "if not room" (it returns False, nothing is sent),   *)
(* the sender is not in the room (error), or the message is put in the     *)
(* room's history and sent to everybody in the room.                       *)
broadcast_message(S, c, name, content) ==
    IF not_room(S, name)
    THEN Goto(Outcome(S, c, "chat_room_missing"), c, "loop")
    ELSE IF c \notin S.rooms[name].users
    THEN Goto(send(Outcome(S, c, "not_in_room"), {c},
                   create_error(Text("No estas en esta sala", <<>>))),
              c, "loop")
    ELSE gather([S EXCEPT !.rooms[name].history =
                              add_message_to_history(@, S.username[c], content),
                          !.loc[c].outcome = "sent"],
                c, create_chat_message(S.username[c], name, content),
                S.rooms[name].users, "loop")

(* ------------------------------ handlers ------------------------------- *)

\* CreateRoomHandler: len(room_name) > 50
RoomNameTooLong(name) == Len(name) > MaxRoomNameLen

(* CreateRoomHandler.handle as it would be without its test of the length. *)
CreateRoomHandler_any_length(S, c) ==
    LET name == Strip(PayloadGet(S.msg[c], "room_name", <<>>)) IN
    IF name = <<>>
    THEN Goto(send(Outcome(S, c, "invalid"), {c}, create_error(
                  Text("El nombre de la sala no puede estar vacio", <<>>))),
              c, "loop")
    ELSE create_room_and_join(S, c, name)

(* CreateRoomHandler.handle                                                *)
CreateRoomHandler(S, c) ==
    LET name == Strip(PayloadGet(S.msg[c], "room_name", <<>>)) IN
    IF name = <<>>
    THEN Goto(send(Outcome(S, c, "invalid"), {c}, create_error(
                  Text("El nombre de la sala no puede estar vacio", <<>>))),
              c, "loop")
    ELSE IF RoomNameTooLong(name)
    THEN Goto(send(Outcome(S, c, "invalid"), {c}, create_error(
                  Text("El nombre de la sala es demasiado largo (max. 50 caracteres)",
                       <<>>))),
              c, "loop")
    ELSE create_room_and_join(S, c, name)

(* JoinRoomHandler.handle                                                  *)
JoinRoomHandler(S, c) ==
    LET name == Strip(PayloadGet(S.msg[c], "room_name", <<>>)) IN
    IF name = <<>>
    THEN Goto(send(Outcome(S, c, "invalid"), {c}, create_error(
                  Text("Debe especificar el nombre de la sala", <<>>))),
              c, "loop")
    ELSE join_room(S, c, name)

(* LeaveRoomHandler.handle as it would be if it left the current room      *)
(* whatever room the frame names.                                          *)
LeaveRoomHandler_current(S, c) ==
    IF S.userRoom[c] # NoRoom
    THEN leave_room(Call(S, c, "loop"), c, S.userRoom[c])
    ELSE Goto(S, c, "loop")

(* LeaveRoomHandler.handle: the room named, else the current room.         *)
LeaveRoomHandler(S, c) ==
    LET name == PayloadGet(S.msg[c], "room_name", NoRoom) IN
    IF name # NoRoom
    THEN leave_room(Call(S, c, "loop"), c, name)
    ELSE IF S.userRoom[c] # NoRoom
    THEN leave_room(Call(S, c, "loop"), c, S.userRoom[c])
    ELSE Goto(S, c, "loop")

(* ListRoomsHandler.handle                                                 *)
ListRoomsHandler(S, c) ==
    Goto(send(S, {c}, create_rooms_list(get_rooms_info(S))), c, "loop")

(* ChatMessageHandler.handle as it would be if it looked for the room      *)
(* before it looks at the content.                                         *)
ChatMessageHandler_room_first(S, c) ==
    LET content == Strip(PayloadGet(S.msg[c], "content", <<>>))
        given == PayloadGet(S.msg[c], "room_name", NoRoom)
        name == IF given # NoRoom THEN given ELSE S.userRoom[c] IN
    IF name = NoRoom
    THEN Goto(send(Outcome(S, c, "no_room"), {c},
                   create_error(Text("No estas en ninguna sala", <<>>))),
              c, "loop")
    ELSE IF content = <<>>
    THEN Goto(Outcome(S, c, "empty"), c, "loop")
    ELSE broadcast_message(S, c, name, content)

(* ChatMessageHandler.handle                                               *)
ChatMessageHandler(S, c) ==
    LET content == Strip(PayloadGet(S.msg[c], "content", <<>>))
        given == PayloadGet(S.msg[c], "room_name", NoRoom)
        name == IF given # NoRoom THEN given ELSE S.userRoom[c] IN
    IF content = <<>>
    THEN Goto(Outcome(S, c, "empty"), c, "loop")
    ELSE IF name = NoRoom
    THEN Goto(send(Outcome(S, c, "no_room"), {c},
                   create_error(Text("No estas en ninguna sala", <<>>))),
              c, "loop")
    ELSE broadcast_message(S, c, name, content)

(* DisconnectHandler.handle: disconnect_user, and back to the read loop.   *)
DisconnectHandler(S, c) == disconnect_user(Call(S, c, "loop"), c)

(* ConnectHandler.handle                                                   *)
ConnectHandler(S, c) == Goto(S, c, "loop")

\* MessageHandlerRegistry._register_default_handlers
HandlerTypes ==
    {"connect", "create_room", "join_room", "leave_room", "list_rooms",
     "chat_message", "disconnect"}

(* MessageHandlerRegistry.handle_message: the handler of the frame's type, *)
(* or nothing (it returns False) when the type has none.                   *)
handle_message(S, c) ==
    LET type == S.msg[c].type IN
    IF type \notin HandlerTypes THEN Goto(Outcome(S, c, "no_handler"), c, "loop")
    ELSE CASE type = "connect" -> ConnectHandler(S, c)
           [] type = "create_room" -> CreateRoomHandler(S, c)
           [] type = "join_room" -> JoinRoomHandler(S, c)
           [] type = "leave_room" -> LeaveRoomHandler(S, c)
           [] type = "list_rooms" -> ListRoomsHandler(S, c)
           [] type = "chat_message" -> ChatMessageHandler(S, c)
           [] type = "disconnect" -> DisconnectHandler(S, c)

(* ----------------------- handle_connection ----------------------------- *)

\* register_user as it would be without its test of the length.
EmptyUserName(name) == name = <<>>

\* register_user: the name after strip() is empty or too long.
InvalidUserName(name) == name = <<>> \/ Len(name) > MaxUserNameLen

\* register_user as it would be without lower(): names compared as given.
NameInUseSameCase(S, name) == \E u \in S.users : S.username[u] = name

\* register_user: an existing user has the name, compared in lower case.
NameInUse(S, name) == \E u \in S.users : Lower(S.username[u]) = Lower(name)

NameRejected == create_connection_error("Nombre de usuario invalido o ya en uso")

(* register_user up to its "async with self._lock".  When it returns None, *)
(* handle_connection sends the connection error.                           *)
register_user(S, c, given) ==
    LET name == Strip(given) IN
    IF InvalidUserName(name)
    THEN Goto(send(Outcome(S, c, "invalid"), {c}, NameRejected), c, "loop")
    ELSE acquire([S EXCEPT !.loc[c].name = name], c, "register_user_locked")

(* register_user with the lock as it would be if a new user were put into  *)
(* the default room.                                                       *)
register_user_locked_into_general(S, c) ==
    LET name == S.loc[c].name IN
    IF NameInUse(S, name)
    THEN Goto(send(Outcome(release(S), c, "name_in_use"), {c}, NameRejected),
              c, "loop")
    ELSE LET S1 == [release(S) EXCEPT
                       !.users = @ \cup {c},
                       !.username[c] = name,
                       !.userRoom[c] = General,
                       !.rooms[General].users = @ \cup {c},
                       !.hasUser[c] = TRUE,
                       !.loc[c].outcome = "registered"] IN
         Goto(send(send(S1, {c}, create_connection_ack(name, c)),
                   {c}, create_rooms_list(get_rooms_info(S1))),
              c, "loop")

(* register_user with the lock as it would be if the refusal of a name in   *)
(* use were told to the user that has the name as well.                    *)
register_user_locked_telling_all(S, c) ==
    LET name == S.loc[c].name IN
    IF NameInUse(S, name)
    THEN Goto(send(Outcome(release(S), c, "name_in_use"), S.users \cup {c},
                   NameRejected),
              c, "loop")
    ELSE LET S1 == [release(S) EXCEPT
                       !.users = @ \cup {c},
                       !.username[c] = name,
                       !.userRoom[c] = NoRoom,
                       !.hasUser[c] = TRUE,
                       !.loc[c].outcome = "registered"] IN
         Goto(send(send(S1, {c}, create_connection_ack(name, c)),
                   {c}, create_rooms_list(get_rooms_info(S1))),
              c, "loop")

(* register_user with the lock, and what handle_connection sends after it: *)
(* the connection error, or the acknowledgement and the rooms list.        *)
register_user_locked(S, c) ==
    LET name == S.loc[c].name IN
    IF NameInUse(S, name)
    THEN Goto(send(Outcome(release(S), c, "name_in_use"), {c}, NameRejected),
              c, "loop")
    ELSE LET S1 == [release(S) EXCEPT
                       !.users = @ \cup {c},
                       !.username[c] = name,
                       !.userRoom[c] = NoRoom,
                       !.hasUser[c] = TRUE,
                       !.loc[c].outcome = "registered"] IN
         Goto(send(send(S1, {c}, create_connection_ack(name, c)),
                   {c}, create_rooms_list(get_rooms_info(S1))),
              c, "loop")

(* handle_connection as it would be if a frame that is not a connect were  *)
(* given to its handler while user is None.                                *)
handle_connection_unchecked(S, c) ==
    LET S1 == [S EXCEPT !.loc[c] = [NoLocals EXCEPT !.entry = S.userRoom[c]]] IN
    IF ~from_json(S.msg[c]).ok
    THEN Goto(Outcome(S1, c, from_json(S.msg[c]).exc), c, "loop")
    ELSE IF ~S.hasUser[c] /\ S.msg[c].type = "connect"
    THEN register_user(S1, c, PayloadGet(S.msg[c], "username", <<>>))
    ELSE handle_message(S1, c)

(* handle_connection as it would be if the exception of Message.from_json  *)
(* were not caught inside the read loop: the loop ends and the finally     *)
(* clause runs.                                                            *)
handle_connection_raising(S, c) ==
    LET S1 == [S EXCEPT !.loc[c] = [NoLocals EXCEPT !.entry = S.userRoom[c]]] IN
    IF ~from_json(S.msg[c]).ok
    THEN Goto(Outcome(S1, c, from_json(S.msg[c]).exc), c,
              "handle_connection_finally")
    ELSE IF ~S.hasUser[c]
    THEN IF S.msg[c].type # "connect"
         THEN Goto(send(Outcome(S1, c, "not_connect"), {c},
                        create_connection_error(
                            "Primer mensaje debe ser de conexion")),
                   c, "loop")
         ELSE register_user(S1, c, PayloadGet(S.msg[c], "username", <<>>))
    ELSE handle_message(S1, c)

(* handle_connection, one frame: Message.from_json, whose exception is     *)
(* logged and nothing is sent; then the handshake while user is None,      *)
(* else the handler of the frame.                                          *)
handle_connection(S, c) ==
    LET S1 == [S EXCEPT !.loc[c] = [NoLocals EXCEPT !.entry = S.userRoom[c]]] IN
    IF ~from_json(S.msg[c]).ok
    THEN Goto(Outcome(S1, c, from_json(S.msg[c]).exc), c, "loop")
    ELSE IF ~S.hasUser[c]
    THEN IF S.msg[c].type # "connect"
         THEN Goto(send(Outcome(S1, c, "not_connect"), {c},
                        create_connection_error(
                            "Primer mensaje debe ser de conexion")),
                   c, "loop")
         ELSE register_user(S1, c, PayloadGet(S.msg[c], "username", <<>>))
    ELSE handle_message(S1, c)

(* handle_connection returns: the task is over.                            *)
handle_connection_return(S, c) ==
    [S EXCEPT !.pc[c] = "done", !.cur = Idle, !.loc[c] = NoLocals]

(* The read loop has ended: finally, disconnect_user if a user registered. *)
handle_connection_finally(S, c) ==
    LET S1 == [S EXCEPT !.msg[c] = NoMsg, !.loc[c] = NoLocals] IN
    IF S.hasUser[c]
    THEN disconnect_user(Call(S1, c, "handle_connection_return"), c)
    ELSE handle_connection_return(S1, c)

(* ------------------------------- tasks --------------------------------- *)

\* Where a task can be when it is made runnable or goes on after a call,
\* and the code that runs from there.
Step(S, c) ==
    LET at == S.pc[c] IN
    CASE at = "handle_connection" -> handle_connection(S, c)
      [] at = "handle_connection_finally" -> handle_connection_finally(S, c)
      [] at = "handle_connection_return" -> handle_connection_return(S, c)
      [] at = "register_user_locked" -> register_user_locked(S, c)
      [] at = "create_room_and_join_lock" -> create_room_and_join_lock(S, c)
      [] at = "create_room_and_join_locked" -> create_room_and_join_locked(S, c)
      [] at = "create_room_and_join_list" -> create_room_and_join_list(S, c)
      [] at = "create_room_and_join_confirm" -> create_room_and_join_confirm(S, c)
      [] at = "join_room_get" -> join_room_get(S, c)
      [] at = "join_room_users" -> join_room_users(S, c)
      [] at = "join_room_welcome" -> join_room_welcome(S, c)
      [] at = "leave_room_users" -> leave_room_users(S, c)
      [] at = "leave_room_collect" -> leave_room_collect(S, c)
      [] at = "delete_room_locked" -> delete_room_locked(S, c)
      [] at = "delete_room_release" -> delete_room_release(S, c)
      [] at = "disconnect_user_lock" -> disconnect_user_lock(S, c)
      [] at = "disconnect_user_locked" -> disconnect_user_locked(S, c)

\* The task runs until it suspends, ends, or is back at the head of its
\* read loop.  (T is the state after one piece of code, computed once.)
RECURSIVE Run(_, _)
Run(S, c) ==
    IF S.cur # {c} \/ S.pc[c] = "loop"
    THEN S
    ELSE CHOOSE R \in {Run(T, c) : T \in {Step(S, c)}} : TRUE

(* ---------------------------- construction ---------------------------- *)

\* ChatServer.__init__ as it would be without the default room.
NoDefaultRoom == [n \in {} |-> NewRoom(0, Sistema, {})]

\* ChatServer.__init__: the default room.
InitRooms == [n \in {General} |-> NewRoom(0, Sistema, {})]

\* ChatServer.__init__: the default room, no user, the lock free; every
\* connection is accepted and its task waits for the first frame.
Init ==
    /\ users = {}
    /\ username = [c \in Conns |-> <<>>]
    /\ userRoom = [c \in Conns |-> NoRoom]
    /\ rooms = InitRooms
    /\ nextRoomId = 1
    /\ locked = FALSE
    /\ waiters = <<>>
    /\ ready = <<>>
    /\ cur = Idle
    /\ pc = [c \in Conns |-> "recv"]
    /\ msg = [c \in Conns |-> NoMsg]
    /\ loc = [c \in Conns |-> NoLocals]
    /\ hasUser = [c \in Conns |-> FALSE]
    /\ gath = [c \in Conns |-> NoGather]
    /\ transport = [c \in Conns |-> "open"]
    /\ observed = {}
    /\ outbox = [c \in Conns |-> <<>>]
    /\ events = 0

(* ------------------------------ network -------------------------------- *)

\* A connection on which nothing has happened yet: its task waits for the
\* first frame.
Fresh(c) ==
    pc[c] = "recv" /\ ~hasUser[c] /\ transport[c] = "open" /\ outbox[c] = <<>>

\* Fresh connections are alike: the one with the lowest number is used first.
InUseOrder(c) == \A d \in Conns : d < c => ~Fresh(d)

(* A frame arrives on a connection whose task waits in "async for          *)
(* raw_message in websocket": the task becomes runnable.                   *)
Arrive(c, raw, max) ==
    /\ cur = Idle
    /\ pc[c] = "recv"
    /\ transport[c] = "open"
    /\ events < max
    /\ InUseOrder(c)
    /\ Becomes([State EXCEPT !.msg[c] = raw,
                             !.pc[c] = "handle_connection",
                             !.events = @ + 1,
                             !.ready = Append(@, TaskItem(c))])

(* The task is back at the head of its loop and the next frame is already  *)
(* buffered by the websocket (the client sent it while the task was busy,  *)
(* possibly before it closed): recv returns it without suspending.         *)
RecvBuffered(c, raw, max) ==
    /\ cur = {c}
    /\ pc[c] = "loop"
    /\ events < max
    /\ Becomes(Run([State EXCEPT !.msg[c] = raw,
                                 !.pc[c] = "handle_connection",
                                 !.events = @ + 1], c))

(* The task is back at the head of its loop and nothing is buffered: it    *)
(* suspends in recv, or, the transport being closed, the iteration ends    *)
(* and the task goes on to its finally clause.                             *)
AwaitFrame(c) ==
    /\ cur = {c}
    /\ pc[c] = "loop"
    /\ Becomes(IF transport[c] = "open"
               THEN [State EXCEPT !.pc[c] = "recv", !.cur = Idle,
                                  !.msg[c] = NoMsg, !.loc[c] = NoLocals]
               ELSE Run([State EXCEPT !.pc[c] = "handle_connection_finally"], c))

(* The client closes the transport, or it fails.  A task waiting in recv   *)
(* is woken with ConnectionClosed.  The server looks at a transport in     *)
(* recv and in send only, and what a send does is recorded for the         *)
(* observed connections only: for the others a close while the task is     *)
(* busy is the step ClosedMeanwhile.                                       *)
Close(c, max) ==
    /\ cur = Idle
    /\ transport[c] = "open"
    /\ events < max
    /\ ~Fresh(c)
    /\ IF c \in observed THEN pc[c] # "done" ELSE pc[c] = "recv"
    /\ Becomes(IF pc[c] = "recv"
               THEN [State EXCEPT !.transport[c] = "closed",
                                  !.events = @ + 1,
                                  !.pc[c] = "handle_connection_finally",
                                  !.ready = Append(@, TaskItem(c))]
               ELSE [State EXCEPT !.transport[c] = "closed", !.events = @ + 1])

(* The task is back at the head of its loop and finds that the transport   *)
(* was closed while it was busy: recv raises at once.                      *)
ClosedMeanwhile(c, max) ==
    /\ cur = {c}
    /\ pc[c] = "loop"
    /\ transport[c] = "open"
    /\ events < max
    /\ c \notin observed
    /\ Becomes(Run([State EXCEPT !.transport[c] = "closed",
                                 !.events = @ + 1,
                                 !.pc[c] = "handle_connection_finally"], c))

\* A send of the gather that the task of c awaits cannot complete: a
\* recipient's transport takes no more data.
Blocked(c) == \E d \in gath[c].to : transport[d] = "stalled"

(* The peer of a registered connection stops reading while the task of    *)
(* the connection waits for a frame: from now on no write to the transport *)
(* completes (websocket.send does not return), and the peer sends nothing. *)
(* As for a close, this is followed up only where the sends are recorded.  *)
Stall(c, max) ==
    /\ cur = Idle
    /\ pc[c] = "recv"
    /\ hasUser[c]
    /\ c \in observed
    /\ transport[c] = "open"
    /\ events < max
    /\ Becomes([State EXCEPT !.transport[c] = "stalled", !.events = @ + 1])

(* The keepalive of websockets.serve (ping_interval, ping_timeout) gives   *)
(* up on a transport that takes no data and closes the connection: its     *)
(* task, waiting in recv, is woken with ConnectionClosed.                  *)
StallEnds(c) ==
    /\ cur = Idle
    /\ transport[c] = "stalled"
    /\ Becomes([State EXCEPT !.transport[c] = "closed",
                             !.pc[c] = "handle_connection_finally",
                             !.ready = Append(@, TaskItem(c))])

(* The sends of a gather that waited on a transport have raised, the       *)
(* transport being closed now: the gather completes.                       *)
SendFails(c) ==
    /\ cur = Idle
    /\ gath[c] # NoGather
    /\ ~Blocked(c)
    /\ \A i \in DOMAIN ready : ready[i] \notin {SendsItem(c), DoneItem(c)}
    /\ Becomes([State EXCEPT !.ready = Append(@, DoneItem(c))])

(* ----------------------------- event loop ------------------------------ *)

\* The next callback of the event loop is a step of the task of c.
Scheduled(c) == cur = Idle /\ ready # <<>> /\ Head(ready) = TaskItem(c)

\* The state when the task of c starts to run.  A task woken by
\* Lock.release takes the lock now (Lock.acquire after "await fut").
Popped(c) ==
    LET S == [State EXCEPT !.cur = {c}, !.ready = Tail(@)] IN
    IF pc[c] = "acquire"
    THEN [S EXCEPT !.locked = TRUE, !.waiters = Tail(@), !.pc[c] = loc[c].after]
    ELSE S

\* The task of c runs.
RunTask(c) == Becomes(Run(Popped(c), c))

\* The task of c is to run on a frame it can decode, of one of the types.
Takes(c, types) ==
    /\ Scheduled(c)
    /\ pc[c] = "handle_connection"
    /\ from_json(msg[c]).ok
    /\ msg[c].type \in types

(* The task runs on a frame that from_json rejects.                        *)
OnUndecodable(c) ==
    /\ Scheduled(c)
    /\ pc[c] = "handle_connection"
    /\ ~from_json(msg[c]).ok
    /\ RunTask(c)

(* The task runs on a frame while user is None: the handshake.             *)
OnHandshake(c) == Takes(c, MessageTypes) /\ ~hasUser[c] /\ RunTask(c)

(* The task of a registered user runs on a frame, by the frame's type.     *)
OnCreateRoom(c) == Takes(c, {"create_room"}) /\ hasUser[c] /\ RunTask(c)

OnJoinRoom(c) == Takes(c, {"join_room"}) /\ hasUser[c] /\ RunTask(c)

OnLeaveRoom(c) == Takes(c, {"leave_room"}) /\ hasUser[c] /\ RunTask(c)

OnListRooms(c) == Takes(c, {"list_rooms"}) /\ hasUser[c] /\ RunTask(c)

OnChatMessage(c) == Takes(c, {"chat_message"}) /\ hasUser[c] /\ RunTask(c)

OnDisconnect(c) == Takes(c, {"disconnect"}) /\ hasUser[c] /\ RunTask(c)

OnOther(c) ==
    /\ Takes(c, (MessageTypes \ HandlerTypes) \cup {"connect"})
    /\ hasUser[c]
    /\ RunTask(c)

(* The task runs after ConnectionClosed woke it in recv.                   *)
OnClosed(c) ==
    /\ Scheduled(c)
    /\ pc[c] = "handle_connection_finally"
    /\ RunTask(c)

(* The task goes on after the lock or the gather it waited for.            *)
Resume(c) ==
    /\ Scheduled(c)
    /\ pc[c] \notin {"handle_connection", "handle_connection_finally"}
    /\ RunTask(c)

(* The event loop runs the send tasks that a gather created: they were     *)
(* queued together and each writes its frame in its first step.  The       *)
(* gather completes when every send has returned or raised, so not while   *)
(* one of them waits on a transport that takes no data.                    *)
RunSends(c) ==
    /\ cur = Idle
    /\ ready # <<>>
    /\ Head(ready) = SendsItem(c)
    /\ Becomes([send(State, gath[c].to, gath[c].frame) EXCEPT
                   !.ready = IF Blocked(c) THEN Tail(@)
                             ELSE Append(Tail(@), DoneItem(c))])

(* The done-callbacks of the send tasks complete the gather's future,      *)
(* which makes the awaiting task runnable.                                 *)
RunDone(c) ==
    /\ cur = Idle
    /\ ready # <<>>
    /\ Head(ready) = DoneItem(c)
    /\ Becomes([State EXCEPT !.ready = Append(Tail(@), TaskItem(c)),
                             !.gath[c] = NoGather])

(* --------------------------- specification ----------------------------- *)

\* The frames the clients send.
Inputs ==
    {RawConnect(NameAl), RawConnect(NameALPadded), RawConnect(NameBo),
     RawCreateRoom(Foo), RawCreateRoom(General),
     RawJoinRoom(General), RawJoinRoom(Foo),
     RawLeaveCurrent, RawLeaveRoom(Foo), RawChatCurrent(TextHi),
     RawListRooms, RawDisconnect, RawInvalidJson}

\* A client sends one of the frames F, or its transport closes, while
\* fewer than max events have happened.
Clients(F, max) ==
    \E c \in Conns :
        \/ \E raw \in F : Arrive(c, raw, max)
        \/ \E raw \in F : RecvBuffered(c, raw, max)
        \/ Close(c, max)

\* What happens whatever the frames are.
Loop ==
    \E c \in Conns :
        \/ AwaitFrame(c)
        \/ OnClosed(c)
        \/ Resume(c)
        \/ RunSends(c)
        \/ RunDone(c)

Next ==
    \/ Clients(Inputs, MaxEvents)
    \/ Loop
    \/ \E c \in Conns :
        \/ ClosedMeanwhile(c, MaxEvents)
        \/ OnUndecodable(c)
        \/ OnHandshake(c)
        \/ OnCreateRoom(c)
        \/ OnJoinRoom(c)
        \/ OnLeaveRoom(c)
        \/ OnListRooms(c)
        \/ OnChatMessage(c)
        \/ OnDisconnect(c)
        \/ OnOther(c)

Spec == Init /\ [][Next]_vars

(* ---------------------- users settled in rooms ------------------------- *)

\* The names the users registered with, by connection.
UserNames == <<NameAl, NameBo, NameCy, NameDi>>

\* Where each user is: in no room, or in one of the rooms named, which are
\* rooms that users created: General has no user when the server starts and
\* join_room refuses a room without users, so General never has one.  Users
\* differ by their names only, so the placements are taken up to a
\* renumbering of the connections: in the order of RoomOrder.
RoomOrder == <<NoRoom, General, Foo, Bar>>

RoomIndex(n) == CHOOSE i \in DOMAIN RoomOrder : RoomOrder[i] = n

Placements(names) ==
    {where \in [Conns -> {NoRoom} \cup names] :
        \A c \in Conns : \A d \in Conns :
            c < d => RoomIndex(where[c]) <= RoomIndex(where[d])}

\* _rooms when the users are where the placement says: General, and the
\* rooms that have members, each created by one of them.
SettledRooms(where) ==
    [n \in {General} \cup ({where[c] : c \in Conns} \ {NoRoom}) |->
        NewRoom(CASE n = General -> 0 [] n = Foo -> 1 [] n = Bar -> 2,
                IF n = General THEN Sistema
                ELSE UserNames[CHOOSE c \in Conns : where[c] = n],
                {c \in Conns : where[c] = n})]

\* A state the server is in after every connection has registered and the
\* users have created and joined rooms of the names given, when nothing is
\* in progress; obs are the connections whose outbound frames are recorded
\* from here on.
InitSettled(names, obs) ==
    \E where \in Placements(names) :
        /\ users = Conns
        /\ username = [c \in Conns |-> UserNames[c]]
        /\ userRoom = where
        /\ rooms = SettledRooms(where)
        /\ nextRoomId = 3
        /\ locked = FALSE
        /\ waiters = <<>>
        /\ ready = <<>>
        /\ cur = Idle
        /\ pc = [c \in Conns |-> "recv"]
        /\ msg = [c \in Conns |-> NoMsg]
        /\ loc = [c \in Conns |-> NoLocals]
        /\ hasUser = [c \in Conns |-> TRUE]
        /\ gath = [c \in Conns |-> NoGather]
        /\ transport = [c \in Conns |-> "open"]
        /\ observed = obs
        /\ outbox = [c \in Conns |-> <<>>]
        /\ events = 0

\* The frames of users that move between rooms.
RoomInputs ==
    {RawCreateRoom(Foo), RawJoinRoom(General), RawJoinRoom(Bar),
     RawLeaveCurrent}

NextRooms ==
    \/ Clients(RoomInputs, MaxRoomEvents)
    \/ Loop
    \/ \E c \in Conns :
        \/ ClosedMeanwhile(c, MaxRoomEvents)
        \/ OnCreateRoom(c)
        \/ OnJoinRoom(c)
        \/ OnLeaveRoom(c)

\* The users move between rooms, starting from where they have settled.
SpecRooms == InitSettled({Foo, Bar}, {}) /\ [][NextRooms]_vars

\* The frames of users that chat while others come and go.
ChatInputs ==
    {RawChatCurrent(TextHi), RawChat(Foo, TextYo), RawJoinRoom(Foo),
     RawLeaveCurrent}

NextChat ==
    \/ Clients(ChatInputs, MaxChatEvents)
    \/ Loop
    \/ \E c \in Conns :
        \/ OnJoinRoom(c)
        \/ OnLeaveRoom(c)
        \/ OnChatMessage(c)

\* The users chat, and what is written to every transport is recorded.
SpecChat == InitSettled({Foo}, Conns) /\ [][NextChat]_vars

(* ------------------------- sessions and names -------------------------- *)

\* C1: no two users in ChatServer._users have names that are equal when
\* compared in lower case, in every reachable state.
C1_NameUniqueness ==
    \A u \in users : \A v \in users :
        u # v => Lower(username[u]) # Lower(username[v])

\* A connect was refused because a user has the name in another case.
C1_Witness ==
    \E c \in Conns : \E u \in users :
        /\ pc[c] = "loop"
        /\ loc[c].outcome = "name_in_use"
        /\ Lower(username[u]) = Lower(loc[c].name)
        /\ username[u] # loc[c].name

\* The connections whose user disconnect_user has taken out of _users while
\* their task still serves frames.
Disconnected ==
    {c \in Conns : hasUser[c] /\ c \notin users /\ pc[c] \in {"recv", "loop",
                                                               "handle_connection"}}

\* C4: every member of every room is in ChatServer._users.
C4_MembersAreLive == \A n \in DOMAIN rooms : rooms[n].users \subseteq users

\* C5: once disconnect_user has run on a disconnect frame, no later frame
\* of the connection changes the rooms, the memberships or the users.
C5_ClosedAfterDisconnect ==
    [][\A c \in Disconnected :
          (Scheduled(c) \/ cur = {c}) => UNCHANGED <<users, userRoom, rooms>>]_vars

\* C6: the room General is in ChatServer._rooms in every reachable state.
C6_GeneralPersists == General \in DOMAIN rooms

\* A user that was in a room has asked to create a room of the name
\* General and was refused: General is still there, without users.
C6_Witness ==
    \E c \in Conns :
        /\ pc[c] = "loop"
        /\ loc[c].outcome = "room_exists"
        /\ loc[c].arg = General
        /\ loc[c].entry # NoRoom
        /\ General \in DOMAIN rooms
        /\ rooms[General].users = {}

(* -------------------------- refused requests --------------------------- *)

\* The user of c is in the room it was in when its frame was taken up, and
\* in no other.
WhereItWas(c) ==
    /\ userRoom[c] = loc[c].entry
    /\ \A n \in DOMAIN rooms : c \in rooms[n].users <=> n = loc[c].entry

\* C8: when create_room is refused because the name exists, the requester,
\* a user in _users, is still in the room it was in, and in no other.
C8_RefusedCreateChangesNothing ==
    \A c \in Conns :
        (c \in users /\ pc[c] = "loop" /\ loc[c].outcome = "room_exists")
            => WhereItWas(c)

\* C9: when join_room is refused because no room has the name, the
\* requester, a user in _users, is still in the room it was in, and in no
\* other.
C9_RefusedJoinChangesNothing ==
    \A c \in Conns :
        (c \in users /\ pc[c] = "loop" /\ loc[c].outcome = "room_missing")
            => WhereItWas(c)

(* ------------------------- rooms and members --------------------------- *)

\* C2: User.current_room is a name exactly when the user is a member of the
\* room stored under that name.
C2_Symmetry ==
    \A c \in Conns :
        /\ userRoom[c] # NoRoom =>
              /\ userRoom[c] \in DOMAIN rooms
              /\ c \in rooms[userRoom[c]].users
        /\ \A n \in DOMAIN rooms : c \in rooms[n].users => userRoom[c] = n

\* A user has joined the room that another user created and is in: the
\* room is the current room of both.
C2_Witness ==
    \E c \in users : \E d \in users \ {c} :
        /\ pc[c] = "loop"
        /\ loc[c].outcome = "joined"
        /\ userRoom[c] # NoRoom
        /\ userRoom[d] = userRoom[c]
        /\ {c, d} \subseteq rooms[userRoom[c]].users

\* C3: no user is a member of two rooms.
C3_SingleRoom ==
    \A c \in Conns : \A n \in DOMAIN rooms : \A m \in DOMAIN rooms :
        (c \in rooms[n].users /\ c \in rooms[m].users) => n = m

\* A user that was in a room is now in another one, which it joined or
\* created, while another user's leave_room is in progress.
C3_Witness ==
    \E c \in Conns : \E d \in Conns \ {c} :
        /\ loc[c].outcome \in {"joined", "created"}
        /\ loc[c].entry # NoRoom
        /\ userRoom[c] \notin {NoRoom, loc[c].entry}
        /\ pc[d] \in {"leave_room_users", "leave_room_collect", "acquire"}

\* The task of c is in leave_room(user, n), past Room.remove_user on the
\* Room that is stored under n, and leave_room has not returned.
InLeaveRoom(c, n) ==
    /\ loc[c].lname = n
    /\ loc[c].lid = rooms[n].id
    /\ \/ pc[c] \in {"leave_room_users", "leave_room_collect",
                     "delete_room_locked", "delete_room_release"}
       \/ pc[c] = "acquire" /\ loc[c].after = "delete_room_locked"

\* C7: a room other than General that is in _rooms without members was left
\* by its last member in a leave_room that has not returned yet.
C7_EmptyRoomCollected ==
    \A n \in DOMAIN rooms \ {General} :
        rooms[n].users = {} => \E c \in rooms[n].emptied_by : InLeaveRoom(c, n)

(* -------------------------------- chat --------------------------------- *)

\* This step takes up the frame msg'[c]: the task of c starts to run on a
\* frame that arrived, or finds the frame buffered at the head of its loop.
TakesUp(c) ==
    \/ Scheduled(c) /\ pc[c] = "handle_connection" /\ pc'[c] # "handle_connection"
    \/ cur = {c} /\ pc[c] = "loop" /\ events' = events + 1 /\ msg'[c] # NoMsg

\* The room a chat_message frame is for: the one it names, else the
\* sender's current room.
ChatRoom(c, frame) ==
    IF PayloadGet(frame, "room_name", NoRoom) # NoRoom
    THEN PayloadGet(frame, "room_name", NoRoom)
    ELSE userRoom[c]

\* This step takes up a chat_message with content that is not empty, sent
\* by a registered user that is a member of the room the message is for.
ChatSent(c) ==
    /\ TakesUp(c)
    /\ hasUser[c]
    /\ from_json(msg'[c]).ok
    /\ msg'[c].type = "chat_message"
    /\ Strip(PayloadGet(msg'[c], "content", <<>>)) # <<>>
    /\ ChatRoom(c, msg'[c]) \in DOMAIN rooms
    /\ c \in rooms[ChatRoom(c, msg'[c])].users

\* The chat_message frame of the message taken up is to be sent to the
\* members of the room, the sender among them.
ChatCommitted(c) ==
    LET name == ChatRoom(c, msg'[c]) IN
    /\ c \in gath'[c].to
    /\ gath'[c] =
          [frame |-> create_chat_message(
                         username[c], name,
                         Strip(PayloadGet(msg'[c], "content", <<>>))),
           to |-> rooms[name].users]
    /\ \E i \in DOMAIN ready' : ready'[i] = SendsItem(c)

\* This step is the event loop running the sends of the chat_message that
\* the task of c gathers.
ChatSends(c) ==
    /\ cur = Idle
    /\ ready # <<>>
    /\ Head(ready) = SendsItem(c)
    /\ ready' = Append(Tail(ready), DoneItem(c))
    /\ gath[c].frame.type = "chat_message"

\* C10, as the code has it: a chat_message of a member of a room is sent to
\* the members of the room at that time, the sender among them, with the
\* sender's name, the room and the content; it is written to each of them
\* whose transport is open when the send runs.
C10_ChatReachesOpenMembers ==
    [][\A c \in Conns :
          /\ ChatSent(c) => ChatCommitted(c)
          /\ ChatSends(c) =>
                \A d \in gath[c].to :
                    transport[d] = "open" =>
                        outbox'[d] = Append(outbox[d], gath[c].frame)]_vars

\* C10 as stated: the chat_message is written to every member of the room
\* at the time it was taken up.
C10_ChatReachesEveryMember ==
    [][\A c \in Conns :
          /\ ChatSent(c) => ChatCommitted(c)
          /\ ChatSends(c) =>
                \A d \in gath[c].to :
                    outbox'[d] = Append(outbox[d], gath[c].frame)]_vars

\* A chat_message of one user has been written to the transport of another
\* and to the sender's own.
C10_Witness ==
    \E c \in Conns : \E d \in Conns \ {c} :
        \E i \in DOMAIN outbox[c] : \E j \in DOMAIN outbox[d] :
            /\ outbox[c][i].type = "chat_message"
            /\ outbox[c][i].username = username[c]
            /\ outbox[c][i].content = TextHi
            /\ outbox[d][j] = outbox[c][i]

(* ------------------------------ history -------------------------------- *)

\* Number of client events in the specification of the room history.
MaxHistoryEvents == 3

\* A history of k chat messages that users sent to a room, the two contents
\* taking turns.
Filled(k) ==
    [i \in 1 .. k |->
        [username |-> IF i % 3 = 0 THEN NameBo ELSE NameAl,
         content |-> IF i % 2 = 0 THEN TextYo ELSE TextHi]]

\* A state the server is in after the users have registered, one has
\* created foo, the other may have joined it, and they have sent chat
\* messages to it, enough to leave its history full or one short of it;
\* nothing is in progress.
InitHistory ==
    \E where \in Placements({Foo}) : \E k \in {MaxHistory - 1, MaxHistory} :
        /\ \E c \in Conns : where[c] = Foo
        /\ users = Conns
        /\ username = [c \in Conns |-> UserNames[c]]
        /\ userRoom = where
        /\ rooms = [SettledRooms(where) EXCEPT ![Foo].history = Filled(k)]
        /\ nextRoomId = 1
        /\ locked = FALSE
        /\ waiters = <<>>
        /\ ready = <<>>
        /\ cur = Idle
        /\ pc = [c \in Conns |-> "recv"]
        /\ msg = [c \in Conns |-> NoMsg]
        /\ loc = [c \in Conns |-> NoLocals]
        /\ hasUser = [c \in Conns |-> TRUE]
        /\ gath = [c \in Conns |-> NoGather]
        /\ transport = [c \in Conns |-> "open"]
        /\ observed = {}
        /\ outbox = [c \in Conns |-> <<>>]
        /\ events = 0

\* The frames of users that chat in a room whose history is about full.
HistoryInputs ==
    {RawChatCurrent(TextHi), RawChatCurrent(TextYo), RawJoinRoom(Foo)}

NextHistory ==
    \/ Clients(HistoryInputs, MaxHistoryEvents)
    \/ Loop
    \/ \E c \in Conns :
        \/ OnJoinRoom(c)
        \/ OnChatMessage(c)

\* The users chat in foo when its history is about full.
SpecHistory == InitHistory /\ [][NextHistory]_vars

\* C11: the history of every room has at most MaxHistory records in every
\* reachable state; a chat message of a member of a room is appended to the
\* room's history, after the oldest record is taken out if the history was
\* full; and nothing else changes a history: it is the most recent messages
\* in the order they were committed.
C11_HistoryBound ==
    /\ [](\A n \in DOMAIN rooms : Len(rooms[n].history) <= MaxHistory)
    /\ [][/\ \A c \in Conns :
                ChatSent(c) =>
                    LET n == ChatRoom(c, msg'[c])
                        old == rooms[n].history IN
                    rooms'[n].history =
                        Append(IF Len(old) < MaxHistory THEN old ELSE Tail(old),
                               [username |-> username[c],
                                content |->
                                    Strip(PayloadGet(msg'[c], "content", <<>>))])
          /\ \A n \in DOMAIN rooms \cap DOMAIN rooms' :
                (rooms'[n].id = rooms[n].id
                     /\ rooms'[n].history # rooms[n].history) =>
                    \E c \in Conns : ChatSent(c) /\ ChatRoom(c, msg'[c]) = n]_vars

\* A chat message was appended to the full history of foo: the history
\* is still full, its last record is the message and its first one is what
\* was the second.
C11_Witness ==
    \E c \in Conns :
        LET h == rooms[Foo].history IN
        /\ loc[c].outcome = "sent"
        /\ Len(h) = MaxHistory
        /\ h[MaxHistory] = [username |-> username[c], content |-> TextYo]
        /\ h[1] = Filled(MaxHistory)[2]
        /\ h[2] = Filled(MaxHistory)[3]

(* ------------------------------ the lock ------------------------------- *)

\* The places of a task that are inside an "async with self._lock" block:
\* in register_user, create_room_and_join, delete_room and disconnect_user.
LockedSections ==
    {"register_user_locked", "create_room_and_join_locked",
     "delete_room_locked", "delete_room_release", "disconnect_user_locked"}

\* In the state S the task of c holds the lock.
HoldsLock(S, c) == S.locked /\ S.pc[c] \in LockedSections

\* From S to T the users, the rooms, a room's members or history, or a
\* user's current room have changed.
Mutates(S, T) ==
    T.users # S.users \/ T.rooms # S.rooms \/ T.userRoom # S.userRoom

\* The task of c, running from S to where it suspends, runs a piece of code
\* that changes the hub while the task does not hold the lock.
RECURSIVE MutatesUnlocked(_, _)
MutatesUnlocked(S, c) ==
    IF S.cur # {c} \/ S.pc[c] = "loop"
    THEN FALSE
    ELSE \/ Mutates(S, Step(S, c)) /\ ~HoldsLock(S, c)
         \/ MutatesUnlocked(Step(S, c), c)

\* C12: a task that changes the users, the rooms, a room's members or
\* history, or a user's current room holds the lock when it does.
C12_MutationsUnderLock ==
    \A c \in Conns : Scheduled(c) => ~MutatesUnlocked(Popped(c), c)

MaxSlowEvents == 3

\* The frames of users that chat.
SlowInputs == {RawChatCurrent(TextHi)}

\* What the event loop does when it can: it runs the callbacks that are
\* ready and the tasks where they are.
Runs ==
    \/ Loop
    \/ \E c \in Conns : SendFails(c) \/ OnChatMessage(c)

NextSlow ==
    \/ Clients(SlowInputs, MaxSlowEvents)
    \/ Runs
    \/ \E c \in Conns : Stall(c, MaxSlowEvents) \/ StallEnds(c)

\* The users chat while the peer of some connection may stop reading.  The
\* event loop keeps running what is ready; nothing obliges a client to send
\* a frame or the keepalive to end a stall.
SpecSlow ==
    /\ InitSettled({Foo}, Conns)
    /\ [][NextSlow]_vars
    /\ WF_vars(Runs)

\* The task of c waits for the gather of the sends of its chat message.
Broadcasting(c) == loc[c].outcome = "sent" /\ pc[c] = "loop" /\ cur # {c}

\* C14: the broadcast of a chat message finishes, whatever the transports
\* of the members do: the sender's task goes on to its next frame.
C14_BroadcastFinishes ==
    \A c \in Conns : Broadcasting(c) ~> ~Broadcasting(c)

(* --------------------------- failing sends ----------------------------- *)

\* This step is the event loop running the sends that the task of c
\* gathers.
SendsRun(c) ==
    /\ cur = Idle
    /\ ready # <<>>
    /\ Head(ready) = SendsItem(c)
    /\ ready' # ready
    /\ ready' # <<>> => Head(ready') # SendsItem(c)

\* C15: when the sends of a broadcast run and the transport of a recipient
\* is closed, so that the send to it raises, the frame is written to every
\* recipient whose transport is open, the users, the rooms and their
\* members stay as they are, and the gather completes, so that the
\* operation that broadcasts goes on.
C15_FailedSendSkipped ==
    [][\A c \in Conns :
          (SendsRun(c) /\ \E d \in gath[c].to : transport[d] = "closed") =>
              /\ \A e \in gath[c].to :
                    transport[e] = "open" =>
                        outbox'[e] = Append(outbox[e], gath[c].frame)
              /\ UNCHANGED <<users, username, userRoom, rooms>>
              /\ \E i \in DOMAIN ready' : ready'[i] = DoneItem(c)]_vars

\* The sends of a broadcast to two members have run: the transport of one
\* was closed, the frame is the last one written to the other, and the
\* gather is complete.
C15_Witness ==
    \E c \in Conns : \E d \in gath[c].to : \E e \in gath[c].to :
        /\ transport[d] = "closed"
        /\ transport[e] = "open"
        /\ outbox[e] # <<>>
        /\ outbox[e][Len(outbox[e])] = gath[c].frame
        /\ \E i \in DOMAIN ready : ready[i] = DoneItem(c)

(* ----------------------------- handshake ------------------------------- *)

\* Number of client events in the specification of the handshake.
MaxShakeEvents == 4

NameBlank == <<" ", " ">>
NameLong == [i \in 1 .. MaxUserNameLen + 1 |-> "a"]

\* The server after construction, as Init, with the frames written to
\* every transport recorded.
InitObserved ==
    /\ users = {}
    /\ username = [c \in Conns |-> <<>>]
    /\ userRoom = [c \in Conns |-> NoRoom]
    /\ rooms = InitRooms
    /\ nextRoomId = 1
    /\ locked = FALSE
    /\ waiters = <<>>
    /\ ready = <<>>
    /\ cur = Idle
    /\ pc = [c \in Conns |-> "recv"]
    /\ msg = [c \in Conns |-> NoMsg]
    /\ loc = [c \in Conns |-> NoLocals]
    /\ hasUser = [c \in Conns |-> FALSE]
    /\ gath = [c \in Conns |-> NoGather]
    /\ transport = [c \in Conns |-> "open"]
    /\ observed = Conns
    /\ outbox = [c \in Conns |-> <<>>]
    /\ events = 0

\* The frames of clients that register, with names good and bad, ask for
\* the rooms and create a room.
ShakeInputs ==
    {RawConnect(NameAl), RawConnect(NameALPadded), RawConnect(NameBo),
     RawConnect(NameBlank), RawConnect(NameLong), RawListRooms,
     RawCreateRoom(Foo), RawInvalidJson, RawUnknownType, RawRoomsList}

NextShake ==
    \/ Clients(ShakeInputs, MaxShakeEvents)
    \/ Loop
    \/ \E c \in Conns :
        \/ OnUndecodable(c)
        \/ OnHandshake(c)
        \/ OnCreateRoom(c)
        \/ OnListRooms(c)
        \/ OnOther(c)

\* Clients register, and what is written to every transport is recorded.
SpecShake == InitObserved /\ [][NextShake]_vars

\* What this step writes to the transport of c is the frames fs, in order,
\* if the transport is open, and nothing if it is not.
Written(c, fs) ==
    outbox'[c] = IF transport[c] = "open" THEN outbox[c] \o fs ELSE outbox[c]

\* C16: a frame that decodes and is not a connect, taken up while the
\* connection has no user, is answered with the connection error "Primer
\* mensaje debe ser de conexion" and nothing else happens: nothing is
\* written to another transport, the users, the rooms and their members
\* are as before, the connection still has no user, no handler has run and
\* the task is back at its read loop.
C16_HandshakeRequired ==
    [][\A c \in Conns :
          (/\ TakesUp(c)
           /\ ~hasUser[c]
           /\ from_json(msg'[c]).ok
           /\ msg'[c].type # "connect") =>
              /\ Written(c, <<[type |-> "connection_error",
                               reason |-> "Primer mensaje debe ser de conexion"]>>)
              /\ \A d \in Conns \ {c} : outbox'[d] = outbox[d]
              /\ UNCHANGED <<users, username, userRoom, rooms, hasUser, locked,
                             waiters>>
              /\ pc'[c] = "loop"
              /\ loc'[c].outcome = "not_connect"]_vars

\* A connection without a user has sent list_rooms while another user is
\* registered: the connection error is all that was written to it.
C16_Witness ==
    \E c \in Conns :
        /\ users # {}
        /\ ~hasUser[c]
        /\ pc[c] = "loop"
        /\ msg[c] = RawListRooms
        /\ outbox[c] = <<[type |-> "connection_error",
                          reason |-> "Primer mensaje debe ser de conexion"]>>

\* In this step the task of c, which has no user, comes to the end of the
\* handshake on a connect frame: it takes the frame up and register_user
\* returns at once, or it goes on in register_user with the lock it waited
\* for.
Shakes(c) ==
    /\ ~hasUser[c]
    /\ pc'[c] = "loop"
    /\ \/ TakesUp(c) /\ from_json(msg'[c]).ok /\ msg'[c].type = "connect"
       \/ Scheduled(c) /\ pc[c] = "acquire"

\* The name of the connect frame, trimmed.
AskedName(c) == Strip(PayloadGet(msg'[c], "username", <<>>))

\* The name is empty, longer than 30 characters, or the name of a user in
\* _users up to case.
Unacceptable(name) ==
    \/ name = <<>>
    \/ Len(name) > MaxUserNameLen
    \/ \E u \in users : Lower(username[u]) = Lower(name)

\* C17: a connect with a name that, trimmed, is empty, longer than 30
\* characters or in use up to case adds no user: the connection error is
\* written to the connection and nothing to any other, the users, the rooms
\* and their members are as before, and the connection has no user still;
\* with any other name it has a user after the step, also when an earlier
\* connect on the connection was refused.
C17_RejectedRegistration ==
    [][\A c \in Conns :
          Shakes(c) =>
              IF Unacceptable(AskedName(c))
              THEN /\ Written(c, <<[type |-> "connection_error",
                                    reason |->
                                        "Nombre de usuario invalido o ya en uso"]>>)
                   /\ \A d \in Conns \ {c} : outbox'[d] = outbox[d]
                   /\ UNCHANGED <<users, username, userRoom, rooms, hasUser>>
              ELSE /\ hasUser'[c]
                   /\ users' = users \cup {c}
                   /\ username'[c] = AskedName(c)]_vars

\* A connection whose connect was refused while another user was
\* registered has registered with its next connect.
C17_Witness ==
    \E c \in Conns : \E d \in users \ {c} :
        /\ c \in users
        /\ Lower(username[c]) # Lower(username[d])
        /\ Len(outbox[c]) >= 2
        /\ outbox[c][1] = [type |-> "connection_error",
                           reason |-> "Nombre de usuario invalido o ya en uso"]
        /\ outbox[c][2].type = "connection_ack"
        /\ outbox[d][1].type = "connection_ack"

\* The rooms_list frame of the rooms as they are before this step.
RoomsListNow ==
    [type |-> "rooms_list",
     rooms |-> {[name |-> n, created_by |-> rooms[n].created_by,
                 user_count |-> Cardinality(rooms[n].users),
                 users |-> {username[u] : u \in rooms[n].users}] :
                    n \in DOMAIN rooms}]

\* C18: a connect that is accepted puts the user into _users with no
\* current room and into no room, and writes connection_ack and then the
\* rooms_list to the connection; and in every state, a frame on a transport
\* that is not a connection_error has a connection_ack before it or is the
\* connection_ack.
C18_AckComesFirst ==
    /\ [](\A c \in Conns : \A i \in DOMAIN outbox[c] :
             outbox[c][i].type # "connection_error" =>
                 \E j \in 1 .. i : outbox[c][j].type = "connection_ack")
    /\ [][\A c \in Conns :
             (Shakes(c) /\ ~Unacceptable(AskedName(c))) =>
                 /\ c \in users'
                 /\ userRoom'[c] = NoRoom
                 /\ \A n \in DOMAIN rooms' : c \notin rooms'[n].users
                 /\ Written(c, <<[type |-> "connection_ack",
                                  username |-> AskedName(c), user_id |-> c],
                                 RoomsListNow>>)]_vars

\* A connection registered while the broadcasts of another user's
\* create_room were under way: connection_ack and rooms_list are the first
\* frames written to it, a rooms_list of the broadcast came after them, and
\* the system message of the broadcast, which the other user got, did not
\* come to it.
C18_Witness ==
    \E c \in users : \E d \in users \ {c} :
        /\ Len(outbox[c]) >= 3
        /\ outbox[c][1].type = "connection_ack"
        /\ outbox[c][2].type = "rooms_list"
        /\ outbox[c][3].type = "rooms_list"
        /\ \A i \in DOMAIN outbox[c] : outbox[c][i].type # "system_message"
        /\ \E i \in DOMAIN outbox[d] : outbox[d][i].type = "system_message"

(* --------------------------- create and join --------------------------- *)

\* Number of client events in the specification of room creation.
MaxCreateEvents == 2

\* The frames of users that create a room and join it.
CreateInputs == {RawCreateRoom(Foo), RawJoinRoom(Foo)}

NextCreate ==
    \/ Clients(CreateInputs, MaxCreateEvents)
    \/ Loop
    \/ \E c \in Conns :
        \/ OnCreateRoom(c)
        \/ OnJoinRoom(c)

\* Users create a room and join it, and what is written to every transport
\* is recorded.
SpecCreate == InitSettled({Bar}, Conns) /\ [][NextCreate]_vars

\* In this step create_room_and_join, called for the user of c, stores a
\* new room.
Creates(c) == nextRoomId' # nextRoomId /\ loc'[c].rid = nextRoomId

\* In this step the task of c goes on from the place at of
\* create_room_and_join.
GoesOnFrom(c, at) == Scheduled(c) /\ pc[c] = at /\ pc'[c] # at

\* The task of c has made a broadcast of the frame to the users T: the
\* sends are queued.
Broadcasts(c, frame, T) ==
    /\ gath'[c] = [frame |-> frame, to |-> T]
    /\ \E i \in DOMAIN ready' : ready'[i] = SendsItem(c)

\* The effects of a create_room that succeeds, but for the users that
\* room_users names.  The new room has the creator as its only member and is
\* the creator's current room, and the system message of the creation is
\* broadcast to every user; next, the rooms_list, with the room in it, is
\* broadcast to every user; last, room_users of the room, naming the users
\* given, and the welcome are written to the creator.
CreateEffects(c, named) ==
    LET X == loc'[c].arg IN
    /\ Creates(c) =>
          /\ X \notin DOMAIN rooms
          /\ rooms'[X].users = {c}
          /\ userRoom'[c] = X
          /\ c \in users'
          /\ Broadcasts(c, [type |-> "system_message",
                            content |-> [template |-> "Se ha creado la sala '{}'",
                                         arg |-> X],
                            room_name |-> NoRoom],
                        users')
    /\ GoesOnFrom(c, "create_room_and_join_list") =>
          /\ X \in DOMAIN rooms
          /\ Broadcasts(c, RoomsListNow, users)
    /\ GoesOnFrom(c, "create_room_and_join_confirm") =>
          /\ c \in rooms[X].users
          /\ Written(c, <<[type |-> "room_users", room_name |-> X,
                           users |-> named],
                          [type |-> "system_message",
                           content |->
                               [template |->
                                    "Has creado y te has unido a la sala '{}'",
                                arg |-> X],
                           room_name |-> X]>>)

JoinsRoom(c, R) ==
    /\ R \in DOMAIN rooms
    /\ R \in DOMAIN rooms'
    /\ c \notin rooms[R].users
    /\ c \in rooms'[R].users
    /\ loc'[c].outcome = "joined"

\* No user_joined frame that names a user is on the user's own transport.
NoOwnJoined ==
    \A c \in Conns : \A i \in DOMAIN outbox[c] :
        outbox[c][i].type = "user_joined" => outbox[c][i].username # username[c]

\* When this step makes the user of c a member of a room that has members,
\* a user_joined frame that names the user is broadcast to those members
\* and to nobody else.
JoinedBroadcast(c) ==
    \A R \in DOMAIN rooms :
        (JoinsRoom(c, R) /\ rooms[R].users # {}) =>
            Broadcasts(c, [type |-> "user_joined", username |-> username[c],
                           room_name |-> R],
                       rooms[R].users)

\* This step is the event loop running the sends of a user_joined frame
\* that the task of c gathers.
JoinedSends(c) == SendsRun(c) /\ gath[c].frame.type = "user_joined"

\* C20, as the code has it: user_joined goes to those who were members of
\* the room before, never to the user that joins, and is written to each of
\* them whose transport is open when the send runs.
C20_JoinedToOpenOthers ==
    /\ []NoOwnJoined
    /\ [][\A c \in Conns :
             /\ JoinedBroadcast(c)
             /\ JoinedSends(c) =>
                   \A d \in gath[c].to :
                       transport[d] = "open" =>
                           outbox'[d] = Append(outbox[d], gath[c].frame)]_vars

\* C20 as stated: user_joined goes to those who were members of the room
\* before, never to the user that joins, and is written to every one of
\* them.
C20_JoinedToEveryOther ==
    /\ []NoOwnJoined
    /\ [][\A c \in Conns :
             /\ JoinedBroadcast(c)
             /\ JoinedSends(c) =>
                   \A d \in gath[c].to :
                       outbox'[d] = Append(outbox[d], gath[c].frame)]_vars

\* A user has joined foo, where another user was: the user_joined frame
\* that names it is on the other's transport, and its own transport has the
\* room's users and no user_joined.
C20_Witness ==
    \E c \in Conns : \E d \in Conns \ {c} :
        /\ loc[c].outcome = "joined"
        /\ {c, d} \subseteq rooms[Foo].users
        /\ \E i \in DOMAIN outbox[d] :
              outbox[d][i] = [type |-> "user_joined", username |-> username[c],
                              room_name |-> Foo]
        /\ \E i \in DOMAIN outbox[c] : outbox[c][i].type = "room_users"
        /\ \A i \in DOMAIN outbox[c] : outbox[c][i].type # "user_joined"

(* ---------------------------- join effects ----------------------------- *)

\* This step brings the task of c to the place at.
ComesTo(c, at) == pc[c] # at /\ pc'[c] = at

\* This step writes the frame to the transport of d, and nothing else; if
\* all is false, only when the transport is open, and nothing when it is
\* not.
Delivers(d, frame, all) ==
    outbox'[d] = IF all \/ transport[d] = "open"
                 THEN Append(outbox[d], frame)
                 ELSE outbox[d]

\* When this step is the event loop running the sends that the task of c
\* gathers, the frame is delivered to each recipient and nothing is written
\* to anybody else.
SendsDeliver(c, all) ==
    SendsRun(c) =>
        /\ \A d \in gath[c].to : Delivers(d, gath[c].frame, all)
        /\ \A d \in Conns \ gath[c].to : outbox'[d] = outbox[d]

\* The welcome of join_room.
JoinWelcome(R) ==
    [type |-> "system_message",
     content |-> [template |-> "Te has unido a la sala '{}'", arg |-> R],
     room_name |-> R]

\* The effects of a join_room that succeeds, after the user_joined
\* notification.  One room_users frame of the room, naming the members the
\* room has then, the new one among them, is broadcast to those members;
\* when that is done the welcome is written to the new member and the
\* rooms_list is broadcast to every user, the new member among them; and
\* the frames of both broadcasts are delivered.
JoinEffects(c, all) ==
    LET R == loc'[c].arg IN
    /\ ComesTo(c, "join_room_welcome") =>
          /\ loc'[c].outcome = "joined"
          /\ R \in DOMAIN rooms'
          /\ c \in rooms'[R].users
          /\ Broadcasts(c, [type |-> "room_users", room_name |-> R,
                            users |-> {username'[u] : u \in rooms'[R].users}],
                        rooms'[R].users)
    /\ GoesOnFrom(c, "join_room_welcome") =>
          /\ Delivers(c, JoinWelcome(R), all)
          /\ c \in users
          /\ Broadcasts(c, RoomsListNow, users)
    /\ (pc[c] = "join_room_welcome"
           \/ (pc[c] = "loop" /\ loc[c].outcome = "joined")) =>
          SendsDeliver(c, all)

\* C21, as the code has it: in a join_room that succeeds, one room_users
\* frame that names the members of the room, the new one among them, goes
\* to every member; then the welcome goes to the new member, and after it
\* the rooms_list to every user; each frame is written to those of its
\* recipients whose transport is open when it is sent.
C21_JoinEffectsOpen == [][\A c \in Conns : JoinEffects(c, FALSE)]_vars

\* C21 as stated: every recipient receives its frames.
C21_JoinEffects == [][\A c \in Conns : JoinEffects(c, TRUE)]_vars

\* A user has joined foo, where another user was: both have the same
\* room_users frame, which names the two, and after it the new member has
\* the welcome and then the rooms_list, which the other has too.
C21_Witness ==
    \E c \in Conns : \E d \in Conns \ {c} :
        LET o == outbox[c]
            ru == [type |-> "room_users", room_name |-> Foo,
                   users |-> {username[c], username[d]}] IN
        /\ loc[c].outcome = "joined"
        /\ Len(o) >= 3
        /\ o[Len(o) - 2] = ru
        /\ o[Len(o) - 1] = JoinWelcome(Foo)
        /\ o[Len(o)].type = "rooms_list"
        /\ \E i \in DOMAIN outbox[d] : outbox[d][i] = ru
        /\ outbox[d] # <<>>
        /\ outbox[d][Len(outbox[d])] = o[Len(o)]

(* ---------------------------- leave effects ---------------------------- *)

\* In this step leave_room takes the user of c out of the room R.
Leaves(c, R) ==
    /\ R \in DOMAIN rooms
    /\ c \in rooms[R].users
    /\ R \in DOMAIN rooms' => c \notin rooms'[R].users

\* The rooms_list frame of the rooms as they are after this step.
RoomsListNext ==
    [type |-> "rooms_list",
     rooms |-> {[name |-> n, created_by |-> rooms'[n].created_by,
                 user_count |-> Cardinality(rooms'[n].users),
                 users |-> {username'[u] : u \in rooms'[n].users}] :
                    n \in DOMAIN rooms'}]

\* In this step the task of c comes to the end of a leave_room that took
\* its user out of a room: past the notifications to those who remain.
LeaveEnds(c) ==
    \/ (\E R \in DOMAIN rooms : Leaves(c, R)) /\ pc'[c] # "leave_room_users"
    \/ GoesOnFrom(c, "leave_room_users") /\ pc'[c] # "leave_room_collect"
    \/ GoesOnFrom(c, "leave_room_collect")

\* C22: when a user leaves the room R it is a member of, it is a member of
\* no room afterwards and has no current room; user_left, with its name and
\* R, is broadcast to those who remain in R and not to the user; when that
\* is done room_users of R is broadcast to those who are in R then, naming
\* them; last, a rooms_list of the rooms as they are then is broadcast to
\* every user; and each frame is written to those of its recipients whose
\* transport is open.
C22_LeaveEffects ==
    [][\A c \in Conns :
          LET R == loc'[c].lname IN
          /\ \A Q \in DOMAIN rooms :
                Leaves(c, Q) =>
                    /\ userRoom'[c] = NoRoom
                    /\ \A n \in DOMAIN rooms' : c \notin rooms'[n].users
                    /\ rooms[Q].users # {c} =>
                          Broadcasts(c, [type |-> "user_left",
                                         username |-> username[c],
                                         room_name |-> Q],
                                     rooms[Q].users \ {c})
          /\ ComesTo(c, "leave_room_collect") =>
                /\ c \notin rooms'[R].users
                /\ Broadcasts(c, [type |-> "room_users", room_name |-> R,
                                  users |-> {username'[u] : u \in rooms'[R].users}],
                              rooms'[R].users)
          /\ LeaveEnds(c) => Broadcasts(c, RoomsListNext, users')
          /\ pc[c] \in {"leave_room_users", "leave_room_collect"} =>
                SendsDeliver(c, FALSE)]_vars

(* ------------------------ moves between rooms -------------------------- *)

\* The rooms the user of c is a member of.
RoomsOf(c) == {n \in DOMAIN rooms : c \in rooms[n].users}

\* In this step join_room makes the user of c, which was in the room R when
\* its join_room frame was taken up, a member of another room Q.
Moves(c, R, Q) ==
    /\ JoinsRoom(c, Q)
    /\ loc'[c].entry = R
    /\ R # NoRoom
    /\ R # Q

\* The frames written to d have user_left of the user of c and the room R
\* and, after it, room_users of R that does not name that user.
LeftThenUsers(d, c, R) ==
    \E i \in DOMAIN outbox[d] : \E j \in DOMAIN outbox[d] :
        /\ i < j
        /\ outbox[d][i] = [type |-> "user_left", username |-> username[c],
                           room_name |-> R]
        /\ outbox[d][j].type = "room_users"
        /\ outbox[d][j].room_name = R
        /\ username[c] \notin outbox[d][j].users

ChatOutside(c) ==
    LET name == PayloadGet(msg'[c], "room_name", NoRoom) IN
    /\ TakesUp(c)
    /\ hasUser[c]
    /\ from_json(msg'[c]).ok
    /\ msg'[c].type = "chat_message"
    /\ Strip(PayloadGet(msg'[c], "content", <<>>)) # <<>>
    /\ name # NoRoom
    /\ name \in DOMAIN rooms => c \notin rooms[name].users

\* Nothing is written to a user other than c, and every room keeps its
\* history.
NothingDelivered(c) ==
    /\ \A d \in Conns \ {c} : outbox'[d] = outbox[d]
    /\ gath'[c] = gath[c]
    /\ DOMAIN rooms' = DOMAIN rooms
    /\ \A n \in DOMAIN rooms : rooms'[n].history = rooms[n].history

\* C24 as stated: a chat_message for a room the sender is not in is
\* answered with the error "No estas en esta sala", written to the sender
\* if its transport is open; nothing is written to anyone else and no
\* history changes.
C24_OutsiderRefused ==
    [][\A c \in Conns :
          ChatOutside(c) =>
              /\ NothingDelivered(c)
              /\ transport[c] = "open" =>
                    outbox'[c] = Append(outbox[c], create_error(
                                     Text("No estas en esta sala", <<>>)))]_vars

(* ------------------------- order of the chat --------------------------- *)

\* a can be had from b by leaving records out.
RECURSIVE IsSubSeq(_, _)
IsSubSeq(a, b) ==
    IF a = <<>> THEN TRUE
    ELSE IF b = <<>> THEN FALSE
    ELSE IF Head(a) = Head(b) THEN IsSubSeq(Tail(a), Tail(b))
    ELSE IsSubSeq(a, Tail(b))

\* The chat messages of the room n written to d, in the order they were
\* written, as the records of a history.
ChatsOf(d, n) ==
    LET fs == SelectSeq(outbox[d],
                        LAMBDA f : f.type = "chat_message" /\ f.room_name = n) IN
    [i \in DOMAIN fs |-> [username |-> fs[i].username, content |-> fs[i].content]]

\* The records of h that the user named u sent.
SentBy(h, u) == SelectSeq(h, LAMBDA r : r.username = u)

\* No record has been dropped from the history of the room n.
Whole(n) == Len(rooms[n].history) < MaxHistory

\* C25: the chat messages of one sender to a room that are written to a
\* user are written in the order they have in the room's history; and the
\* history has them in the order the sender sent them: when the message of
\* a member is taken up it goes to the end of the history, and by then no
\* send of that user's earlier broadcast is still to run.
C25_SenderOrder ==
    /\ [](\A c \in Conns : \A d \in Conns : \A n \in DOMAIN rooms :
             Whole(n) => IsSubSeq(SentBy(ChatsOf(d, n), username[c]),
                                  SentBy(rooms[n].history, username[c])))
    /\ [][\A c \in Conns :
             ChatSent(c) =>
                 LET n == ChatRoom(c, msg'[c]) IN
                 /\ Whole(n) =>
                       rooms'[n].history =
                           Append(rooms[n].history,
                                  [username |-> username[c],
                                   content |-> Strip(PayloadGet(msg'[c], "content",
                                                                <<>>))])
                 /\ \A i \in DOMAIN ready :
                       ready[i].c = c => ready[i].kind = "task"]_vars

\* A user has sent "hi" and then "yo" to foo: the history has them so, and
\* so have the frames written to the other member and to the sender.
C25_Witness ==
    \E c \in Conns : \E d \in Conns \ {c} :
        LET both == <<[username |-> username[c], content |-> TextHi],
                      [username |-> username[c], content |-> TextYo]>> IN
        /\ Foo \in DOMAIN rooms
        /\ rooms[Foo].history = both
        /\ ChatsOf(d, Foo) = both
        /\ ChatsOf(c, Foo) = both

\* C26: the chat messages of a room that are written to a user, whoever
\* sent them, are written in the order they have in the room's history, so
\* that two users have the messages they both get in the same order.
C26_RoomOrder ==
    \A d \in Conns : \A n \in DOMAIN rooms :
        Whole(n) => IsSubSeq(ChatsOf(d, n), rooms[n].history)

\* Two users have sent a message each to foo, the second before the sends
\* of the first had run: both broadcasts have been written and neither
\* task has gone on yet, and both users have the two messages as the
\* history has them.
C26_Witness ==
    \E c \in Conns : \E d \in Conns \ {c} :
        /\ \E i \in DOMAIN ready : \E j \in DOMAIN ready :
              i < j /\ ready[i] = DoneItem(c) /\ ready[j] = DoneItem(d)
        /\ Foo \in DOMAIN rooms
        /\ Len(rooms[Foo].history) = 2
        /\ rooms[Foo].history[1].username = username[c]
        /\ rooms[Foo].history[2].username = username[d]
        /\ ChatsOf(c, Foo) = rooms[Foo].history
        /\ ChatsOf(d, Foo) = rooms[Foo].history

(* -------------------------- protocol errors ---------------------------- *)

\* This step takes up a frame that Message.from_json rejects: it is not
\* JSON, or its type is none of MessageType.
Malformed(c) == TakesUp(c) /\ ~from_json(msg'[c]).ok

\* This step takes up, for a registered user, a frame that decodes and
\* whose type has no handler.
NoHandler(c) ==
    /\ TakesUp(c)
    /\ hasUser[c]
    /\ from_json(msg'[c]).ok
    /\ msg'[c].type \notin HandlerTypes

\* C27 as stated: a frame that from_json rejects is answered with the error
\* "mensaje invalido", written to the connection if its transport is open.
C27_MalformedAnswered ==
    [][\A c \in Conns :
          Malformed(c) =>
              Written(c, <<create_error(Text("mensaje invalido", <<>>))>>)]_vars

\* C28: a frame that from_json rejects, and a frame of a registered user
\* whose type has no handler, change nothing: the connection has a user or
\* not as before, the users, their names and rooms, the rooms with their
\* members and histories, the lock and the transports are the same, nothing
\* is written to anyone, and the task is back at the head of its read loop
\* with no call in progress, where it takes the next frame.
C28_ErrorsNotFatal ==
    [][\A c \in Conns :
          (Malformed(c) \/ NoHandler(c)) =>
              /\ UNCHANGED <<hasUser, users, username, userRoom, rooms,
                             nextRoomId, locked, waiters, transport, outbox>>
              /\ pc'[c] = "loop"
              /\ cur' = {c}
              /\ loc'[c].stack = <<>>
              /\ \A i \in DOMAIN ready' : ready'[i].c # c]_vars

\* The first connection has sent two frames and the other none: the first
\* frame left it without a user and nothing was written for it, so it was
\* one that from_json rejects; the second, a connect, has registered it,
\* and the acknowledgement and the rooms list are all that was written.
C28_Witness ==
    /\ events = 2
    /\ Fresh(2)
    /\ pc[1] = "loop"
    /\ hasUser[1]
    /\ 1 \in users
    /\ loc[1].outcome = "registered"
    /\ transport[1] = "open"
    /\ Len(outbox[1]) = 2
    /\ outbox[1][1].type = "connection_ack"
    /\ outbox[1][2].type = "rooms_list"

(* ------------------------- who gets the errors ------------------------- *)

\* The frames this step writes to d.
NewFrames(d) == SubSeq(outbox'[d], Len(outbox[d]) + 1, Len(outbox'[d]))

\* This step writes an error or a connection_error to d.
GetsError(d) ==
    \E i \in DOMAIN NewFrames(d) :
        NewFrames(d)[i].type \in {"error", "connection_error"}

\* C29: an error or connection_error is written to a connection only in a
\* step of that connection's own task, while it works on a frame the
\* connection sent; and none is ever the frame of a broadcast.
C29_ErrorsToOriginator ==
    /\ [](\A c \in Conns :
             gath[c].to # {} =>
                 gath[c].frame.type \notin {"error", "connection_error"})
    /\ [][\A d \in Conns :
             GetsError(d) =>
                 /\ Scheduled(d) \/ cur = {d}
                 /\ msg'[d] # NoMsg
                 /\ \A e \in Conns \ {d} : ~GetsError(e)]_vars

\* A user has asked to create the room that another user created and is
\* in: the error is written to it, and no error or connection_error was
\* ever written to the other.
C29_Witness ==
    \E c \in Conns : \E d \in Conns \ {c} :
        /\ pc[d] = "loop"
        /\ loc[d].outcome = "room_exists"
        /\ outbox[d][Len(outbox[d])].type = "error"
        /\ c \in users
        /\ userRoom[c] = msg[d].room_name
        /\ \A i \in DOMAIN outbox[c] :
              outbox[c][i].type \notin {"error", "connection_error"}

(* ------------------------ the transport closes ------------------------- *)

\* The session of c has ended: its task is over, it is not in _users and in
\* no room, and no user has its name, so that register_user accepts the
\* name again.
Gone(c) ==
    /\ pc[c] = "done"
    /\ c \notin users
    /\ \A n \in DOMAIN rooms : c \notin rooms[n].users
    /\ ~NameInUse(State, username[c])

\* user_left of the user of c and the room n has been written to every
\* user that is in n and whose transport is open.
Told(c, n) ==
    \A d \in (IF n \in DOMAIN rooms THEN rooms[n].users ELSE {}) :
        transport[d] = "open" =>
            \E i \in DOMAIN outbox[d] :
                outbox[d][i] = create_user_left(username[c], n)

\* A write to some transport does not complete.
SomeStalled == \E d \in Conns : transport[d] = "stalled"

\* C30: under the event loop's fairness, once the transport of a user in
\* _users is closed the session ends, unless a write to a peer does not
\* complete; and if the user was in foo, user_left has then been written
\* to those in foo whose transport is open.
C30_ClosedSessionEnds ==
    \A c \in Conns :
        /\ (transport[c] = "closed" /\ c \in users)
              ~> (Gone(c) \/ SomeStalled)
        /\ (transport[c] = "closed" /\ Foo \in RoomsOf(c))
              ~> ((Gone(c) /\ Told(c, Foo)) \/ SomeStalled)

\* The transport of a user that was in foo with another has closed and its
\* session has ended; the other, still in foo, has its user_left.
C30_Witness ==
    \E c \in Conns : \E d \in Conns \ {c} :
        /\ transport[c] = "closed"
        /\ Gone(c)
        /\ Foo \in DOMAIN rooms
        /\ d \in rooms[Foo].users
        /\ transport[d] = "open"
        /\ \E i \in DOMAIN outbox[d] :
              outbox[d][i] = create_user_left(username[c], Foo)

(* ------------------- requests that change nothing ---------------------- *)

\* Number of client events in the specification of requests that are
\* repeated, refused or ignored.
MaxEdgeEvents == 2

\* The frames of users that disconnect, leave rooms they are in or not,
\* create rooms with names that are refused and chat with and without
\* content.
EdgeInputs ==
    {RawDisconnect, RawJoinRoom(Foo), RawLeaveRoom(Foo), RawLeaveRoom(Bar),
     RawCreateRoom(NameBlank),
     RawCreateRoom([i \in 1 .. MaxRoomNameLen + 1 |-> "x"]),
     RawChatCurrent(TextHi), RawChatCurrent(NameBlank)}

NextEdge ==
    \/ Clients(EdgeInputs, MaxEdgeEvents)
    \/ Loop
    \/ \E c \in Conns :
        \/ OnCreateRoom(c)
        \/ OnJoinRoom(c)
        \/ OnLeaveRoom(c)
        \/ OnChatMessage(c)
        \/ OnDisconnect(c)

\* Users that have settled send such frames, and what is written to every
\* transport is recorded.
SpecEdge == InitSettled({Foo}, Conns) /\ [][NextEdge]_vars

(* ------------------------- disconnect, twice --------------------------- *)

\* This step is the finally clause of handle_connection running
\* disconnect_user for a user that disconnect_user has already taken out of
\* _users and that is in no room: the task was woken by the close of its
\* transport, or finds the transport closed at the head of its loop.
DisconnectsAgain(c) ==
    /\ hasUser[c]
    /\ c \notin users
    /\ userRoom[c] = NoRoom
    /\ pc'[c] # pc[c]
    /\ \/ Scheduled(c) /\ pc[c] = "handle_connection_finally"
       \/ cur = {c} /\ pc[c] = "loop" /\ transport[c] # "open"
             /\ events' = events

\* C31: disconnect_user run by the finally clause on a user that the
\* disconnect frame has already disconnected changes neither the users,
\* the rooms and their members, nor the lock, writes no frame to any
\* transport and starts no broadcast, and the task ends normally.
C31_DisconnectIdempotent ==
    [][\A c \in Conns :
          DisconnectsAgain(c) =>
              /\ UNCHANGED <<users, username, userRoom, rooms, nextRoomId,
                             locked, waiters, outbox, gath, transport>>
              /\ pc'[c] = "done"
              /\ cur' = Idle
              /\ \A i \in DOMAIN ready' : ready'[i].c # c]_vars

\* The user of c was disconnected on its disconnect frame, the transport
\* has closed since, and the finally clause is next to run, while another
\* user is there to be told.
C31_Witness ==
    \E c \in Conns : \E d \in Conns \ {c} :
        /\ Scheduled(c)
        /\ pc[c] = "handle_connection_finally"
        /\ hasUser[c]
        /\ c \notin users
        /\ userRoom[c] = NoRoom
        /\ transport[c] = "closed"
        /\ d \in users
        /\ transport[d] = "open"

(* ------------------------- join of one's room -------------------------- *)

\* This step takes up a join_room of a registered user for the room that
\* is its current_room.
JoinsOwnRoom(c) ==
    /\ TakesUp(c)
    /\ hasUser[c]
    /\ from_json(msg'[c]).ok
    /\ msg'[c].type = "join_room"
    /\ userRoom[c] # NoRoom
    /\ Strip(PayloadGet(msg'[c], "room_name", <<>>)) = userRoom[c]

\* C32: a join_room for the room the user is in changes no membership, no
\* current_room and no room, writes no frame to any transport and starts
\* no broadcast; the task is back at its read loop.
C32_JoinOwnRoomNoOp ==
    [][\A c \in Conns :
          JoinsOwnRoom(c) =>
              /\ UNCHANGED <<users, username, userRoom, rooms, nextRoomId,
                             locked, waiters, outbox, gath, transport>>
              /\ pc'[c] = "loop"
              /\ cur' = {c}
              /\ loc'[c].stack = <<>>
              /\ \A i \in DOMAIN ready' : ready'[i].c # c]_vars

\* A user in foo has asked to join foo: it is still there, with another
\* member to whom nothing has been written.
C32_Witness ==
    \E c \in Conns : \E d \in Conns \ {c} :
        /\ cur = {c}
        /\ pc[c] = "loop"
        /\ loc[c].outcome = "already_in_room"
        /\ loc[c].entry = Foo
        /\ userRoom[c] = Foo
        /\ Foo \in DOMAIN rooms
        /\ {c, d} \subseteq rooms[Foo].users
        /\ outbox[c] = <<>>
        /\ outbox[d] = <<>>

(* --------------------- leave of somebody's room ------------------------ *)

\* This step takes up a leave_room of a registered user that names a room
\* which is not in _rooms or of which the user is not a member.
LeavesOtherRoom(c) ==
    LET name == PayloadGet(msg'[c], "room_name", NoRoom) IN
    /\ TakesUp(c)
    /\ hasUser[c]
    /\ from_json(msg'[c]).ok
    /\ msg'[c].type = "leave_room"
    /\ name # NoRoom
    /\ name \in DOMAIN rooms => c \notin rooms[name].users

\* C33: a leave_room for a room that is missing or that the user is not in
\* changes no membership, no current_room and no room, writes no frame to
\* any transport and starts no broadcast; the task is back at its read
\* loop.
C33_LeaveOtherRoomNoOp ==
    [][\A c \in Conns :
          LeavesOtherRoom(c) =>
              /\ UNCHANGED <<users, username, userRoom, rooms, nextRoomId,
                             locked, waiters, outbox, gath, transport>>
              /\ pc'[c] = "loop"
              /\ cur' = {c}
              /\ loc'[c].stack = <<>>
              /\ \A i \in DOMAIN ready' : ready'[i].c # c]_vars

\* A user in foo has asked to leave bar, a room that is not there: it is
\* still in foo, and nothing has been written to it or to the other
\* member.
C33_Witness ==
    \E c \in Conns : \E d \in Conns \ {c} :
        /\ cur = {c}
        /\ pc[c] = "loop"
        /\ msg[c] = RawLeaveRoom(Bar)
        /\ Bar \notin DOMAIN rooms
        /\ userRoom[c] = Foo
        /\ Foo \in DOMAIN rooms
        /\ {c, d} \subseteq rooms[Foo].users
        /\ outbox[c] = <<>>
        /\ outbox[d] = <<>>

(* ------------------------ room names refused --------------------------- *)

\* The room name of the create_room frame of c, as CreateRoomHandler takes
\* it: trimmed.
AskedRoom(c) == Strip(PayloadGet(msg'[c], "room_name", <<>>))

\* This step takes up a create_room of a registered user whose room name
\* is empty after trimming or longer than 50 characters.
CreatesInvalid(c) ==
    /\ TakesUp(c)
    /\ hasUser[c]
    /\ from_json(msg'[c]).ok
    /\ msg'[c].type = "create_room"
    /\ AskedRoom(c) = <<>> \/ Len(AskedRoom(c)) > MaxRoomNameLen

\* The error that answers the name.
InvalidRoomError(name) ==
    IF name = <<>>
    THEN create_error(Text("El nombre de la sala no puede estar vacio", <<>>))
    ELSE create_error(
             Text("El nombre de la sala es demasiado largo (max. 50 caracteres)",
                  <<>>))

\* C34: a create_room with a room name that is empty after trimming or
\* longer than 50 characters is answered with the error for the name,
\* written to the requester's transport and to no other; the requester is
\* in the room it was in, no room is created or deleted, no membership
\* changes, no broadcast is started and the task is back at its read loop.
C34_InvalidRoomNameChangesNothing ==
    [][\A c \in Conns :
          CreatesInvalid(c) =>
              /\ Written(c, <<InvalidRoomError(AskedRoom(c))>>)
              /\ \A d \in Conns \ {c} : outbox'[d] = outbox[d]
              /\ UNCHANGED <<users, username, userRoom, rooms, nextRoomId,
                             locked, waiters, gath, transport>>
              /\ pc'[c] = "loop"
              /\ cur' = {c}
              /\ loc'[c].stack = <<>>
              /\ \A i \in DOMAIN ready' : ready'[i].c # c]_vars

\* A member of foo has asked for a room with a name of 51 characters: it
\* has the error and is still in foo, and nothing has been written to the
\* other member.
C34_Witness ==
    \E c \in Conns : \E d \in Conns \ {c} :
        /\ cur = {c}
        /\ pc[c] = "loop"
        /\ msg[c].type = "create_room"
        /\ Len(Strip(PayloadGet(msg[c], "room_name", <<>>))) = MaxRoomNameLen + 1
        /\ loc[c].outcome = "invalid"
        /\ userRoom[c] = Foo
        /\ DOMAIN rooms = {General, Foo}
        /\ {c, d} \subseteq rooms[Foo].users
        /\ outbox[c] = <<create_error(
               Text("El nombre de la sala es demasiado largo (max. 50 caracteres)",
                    <<>>))>>
        /\ outbox[d] = <<>>

(* ------------------------- default chat target ------------------------- *)

\* This step takes up a chat_message of a registered user that names no
\* room.
ChatsUnaddressed(c) ==
    /\ TakesUp(c)
    /\ hasUser[c]
    /\ from_json(msg'[c]).ok
    /\ msg'[c].type = "chat_message"
    /\ PayloadGet(msg'[c], "room_name", NoRoom) = NoRoom

\* The content of the chat_message of c, as ChatMessageHandler takes it:
\* trimmed.
SaidBy(c) == Strip(PayloadGet(msg'[c], "content", <<>>))

\* The step ends with the task of c at its read loop and no broadcast
\* started, the rooms and their histories as before.
NothingSaid(c) ==
    /\ UNCHANGED <<users, username, userRoom, rooms, nextRoomId, locked,
                   waiters, gath, transport>>
    /\ \A d \in Conns \ {c} : outbox'[d] = outbox[d]
    /\ pc'[c] = "loop"
    /\ cur' = {c}
    /\ \A i \in DOMAIN ready' : ready'[i].c # c

\* C35: of a chat_message that names no room, a content that is empty
\* after trimming is ignored: no frame is written and no history changes;
\* with content, a sender in no room is written the error "No estas en
\* ninguna sala" and nothing is recorded or broadcast; a sender in a room
\* has the message put at the end of that room's history and broadcast
\* to the members of that room, under its name and the room's.
C35_DefaultChatTarget ==
    [][\A c \in Conns :
          ChatsUnaddressed(c) =>
              IF SaidBy(c) = <<>>
              THEN NothingSaid(c) /\ outbox'[c] = outbox[c]
              ELSE IF userRoom[c] = NoRoom
              THEN /\ NothingSaid(c)
                   /\ Written(c, <<create_error(
                                       Text("No estas en ninguna sala", <<>>))>>)
              ELSE /\ Broadcasts(c, create_chat_message(username[c], userRoom[c],
                                                        SaidBy(c)),
                                 rooms[userRoom[c]].users)
                   /\ rooms' = [rooms EXCEPT ![userRoom[c]].history =
                                    add_message_to_history(@, username[c],
                                                           SaidBy(c))]
                   /\ UNCHANGED <<outbox, users, userRoom>>]_vars

\* A member of foo has sent "hi" without naming a room: the message is in
\* the history of foo and has been written to the other member as a
\* chat_message for foo.
C35_Witness ==
    \E c \in Conns : \E d \in Conns \ {c} :
        /\ msg[c] = RawChatCurrent(TextHi)
        /\ loc[c].outcome = "sent"
        /\ userRoom[c] = Foo
        /\ Foo \in DOMAIN rooms
        /\ d \in rooms[Foo].users
        /\ rooms[Foo].history = <<[username |-> username[c], content |-> TextHi]>>
        /\ outbox[d] = <<create_chat_message(username[c], Foo, TextHi)>>

(* ----------------------- two creators, one name ------------------------ *)

\* In this step create_room_and_join, called for the user of c, finds a
\* room of the name and returns False.
CreateRefused(c) ==
    loc'[c].outcome = "room_exists" /\ loc[c].outcome # "room_exists"

\* The creation of c is in progress, and d has been refused the same name.
WonAgainst(c, d) ==
    /\ loc[c].outcome = "created"
    /\ loc[d].outcome = "room_exists"
    /\ loc[c].arg = loc[d].arg

\* C36: of the creations of one name that are in progress together one
\* succeeds.  A room is stored only under a name that has none, with its
\* creator as the only member, and the other rooms stay; a creator is
\* refused only when a room of the name is there, is written the error
\* "La sala 'X' ya existe" and is not a member of that room; and while the
\* winner's creation is in progress the room under the name is the
\* winner's, with the winner in it and the loser not.
C36_OneCreatorWins ==
    /\ [](\A c \in Conns : \A d \in Conns \ {c} :
            /\ ~(/\ loc[c].outcome = "created"
                 /\ loc[d].outcome = "created"
                 /\ loc[c].arg = loc[d].arg)
            /\ WonAgainst(c, d) =>
                   /\ loc[c].arg \in DOMAIN rooms
                   /\ rooms[loc[c].arg].id = loc[c].rid
                   /\ rooms[loc[c].arg].created_by = username[c]
                   /\ c \in rooms[loc[c].arg].users
                   /\ d \notin rooms[loc[c].arg].users)
    /\ [][\A c \in Conns :
            /\ Creates(c) =>
                   /\ loc'[c].arg \notin DOMAIN rooms
                   /\ DOMAIN rooms' = DOMAIN rooms \cup {loc'[c].arg}
                   /\ rooms'[loc'[c].arg].users = {c}
                   /\ \A n \in DOMAIN rooms : rooms'[n].id = rooms[n].id
            /\ CreateRefused(c) =>
                   /\ loc'[c].arg \in DOMAIN rooms
                   /\ DOMAIN rooms' = DOMAIN rooms
                   /\ c \notin rooms'[loc'[c].arg].users
                   /\ userRoom'[c] # loc'[c].arg
                   /\ Written(c, <<create_error(Text("La sala '{}' ya existe",
                                                     loc'[c].arg))>>)]_vars

\* Two users have asked for the room foo at the same time: the one's
\* creation is still in progress, the other has been refused, has the
\* error and is not in foo, whose only member is the winner.
C36_Witness ==
    \E c \in Conns : \E d \in Conns \ {c} :
        /\ WonAgainst(c, d)
        /\ loc[c].arg = Foo
        /\ pc[c] # "loop"
        /\ cur = {d}
        /\ pc[d] = "loop"
        /\ Foo \in DOMAIN rooms
        /\ rooms[Foo].users = {c}
        /\ userRoom[c] = Foo
        /\ userRoom[d] = NoRoom
        /\ \E i \in DOMAIN outbox[d] :
               outbox[d][i] = create_error(Text("La sala '{}' ya existe", Foo))

(* --------------------- chat stays inside the room ---------------------- *)

\* In this step the task of c starts the gather of a chat_message.
ChatGathered(c) ==
    /\ gath'[c] # gath[c]
    /\ gath'[c].frame.type = "chat_message"

\* C37: a chat_message for a room is written only to transports of those
\* who were members of the room when the message was put in its history.
\* The gather of a chat_message starts in the step that appends the
\* message to the history of the room it names, and its recipients are the
\* members the room has in that step; and a chat_message is written to a
\* transport only by the sends of such a gather, to one of its recipients.
C37_ChatStaysInRoom ==
    [][/\ \A c \in Conns :
            ChatGathered(c) =>
                LET f == gath'[c].frame IN
                /\ f.room_name \in DOMAIN rooms
                /\ gath'[c].to = rooms[f.room_name].users
                /\ rooms'[f.room_name].users = rooms[f.room_name].users
                /\ rooms'[f.room_name].history =
                       add_message_to_history(rooms[f.room_name].history,
                                              f.username, f.content)
       /\ \A d \in Conns : \A i \in DOMAIN NewFrames(d) :
            NewFrames(d)[i].type = "chat_message" =>
                \E c \in Conns :
                    /\ cur = Idle
                    /\ ready # <<>>
                    /\ Head(ready) = SendsItem(c)
                    /\ gath[c].frame = NewFrames(d)[i]
                    /\ d \in gath[c].to]_vars

\* A user has left foo, the member that stayed was told so and has then had
\* its own chat_message for foo; the user that left has had frames, none of
\* them a chat_message.
C37_Witness ==
    \E c \in Conns : \E d \in Conns \ {c} :
        /\ Foo \in DOMAIN rooms
        /\ rooms[Foo].users = {c}
        /\ userRoom[d] = NoRoom
        /\ \E i \in DOMAIN outbox[c] : \E j \in DOMAIN outbox[c] :
               /\ i < j
               /\ outbox[c][i] = create_user_left(username[d], Foo)
               /\ outbox[c][j].type = "chat_message"
               /\ outbox[c][j].room_name = Foo
               /\ outbox[c][j].username = username[c]
        /\ outbox[d] # <<>>
        /\ \A k \in DOMAIN outbox[d] : outbox[d][k].type # "chat_message"

(* ------------------------ room_users converges ------------------------- *)

\* No operation is in progress and nothing is left to be written: no task
\* runs or is runnable, no send is queued, and every task waits for a frame
\* or is over.
Quiescent ==
    /\ cur = Idle
    /\ ready = <<>>
    /\ \A c \in Conns : pc[c] \in {"recv", "done"}

\* Where the room_users frames of the room n are among the frames written
\* to the transport of m.
RoomUsersAt(m, n) ==
    {i \in DOMAIN outbox[m] :
        outbox[m][i].type = "room_users" /\ outbox[m][i].room_name = n}

\* The frames written to the transport of m tell of somebody who joined or
\* left the room n.
SawChange(m, n) ==
    \E i \in DOMAIN outbox[m] :
        /\ outbox[m][i].type \in {"user_joined", "user_left"}
        /\ outbox[m][i].room_name = n

\* C38: when nothing is in progress, the last room_users frame of a room
\* written to a member of the room lists the names of the room's members;
\* and a member to whom none has been written since the frames are
\* recorded has not been told of anybody joining or leaving the room.
C38_RoomUsersConverge ==
    Quiescent =>
        \A n \in DOMAIN rooms : \A m \in rooms[n].users :
            IF RoomUsersAt(m, n) = {}
            THEN ~SawChange(m, n)
            ELSE LET last == CHOOSE i \in RoomUsersAt(m, n) :
                                 \A j \in RoomUsersAt(m, n) : j <= i IN
                 outbox[m][last].users = usernames(State, rooms[n])

\* Nothing is in progress after one user joined foo while the other left
\* it: the one in foo has had room_users with both names and then
\* room_users with its own name only.
C38_Witness ==
    \E c \in Conns : \E d \in Conns \ {c} :
        /\ Quiescent
        /\ Foo \in DOMAIN rooms
        /\ rooms[Foo].users = {c}
        /\ transport[d] = "open"
        /\ \E i \in RoomUsersAt(c, Foo) : \E j \in RoomUsersAt(c, Foo) :
               /\ i < j
               /\ outbox[c][i].users = {username[c], username[d]}
               /\ outbox[c][j].users = {username[c]}
               /\ \A k \in RoomUsersAt(c, Foo) : k <= j

(* ------------------------ rooms_list converges ------------------------- *)

\* Where the rooms_list frames are among the frames written to the
\* transport of m.
RoomsListAt(m) ==
    {i \in DOMAIN outbox[m] : outbox[m][i].type = "rooms_list"}

\* C39: when nothing is in progress, the last rooms_list frame written to
\* a user whose transport is open names the rooms of the server with the
\* number of members each has.
C39_RoomsListConverge ==
    Quiescent =>
        \A m \in users :
            (transport[m] = "open" /\ RoomsListAt(m) # {}) =>
                LET last == CHOOSE i \in RoomsListAt(m) :
                                 \A j \in RoomsListAt(m) : j <= i IN
                outbox[m][last] = create_rooms_list(get_rooms_info(State))

(* ------------------- a peer that takes no more data -------------------- *)

\* Number of client events in the specification of clients that register
\* and create a room while a peer may stop reading.
MaxStallEvents == 4

\* The frames of clients that register and create a room.
StallInputs == {RawConnect(NameAl), RawConnect(NameBo), RawCreateRoom(Foo)}

\* What the event loop does when it can, for these frames.
RunsStall ==
    \/ Loop
    \/ \E c \in Conns :
        \/ SendFails(c)
        \/ OnHandshake(c)
        \/ OnCreateRoom(c)
        \/ OnOther(c)

NextStall ==
    \/ Clients(StallInputs, MaxStallEvents)
    \/ RunsStall
    \/ \E c \in Conns : Stall(c, MaxStallEvents) \/ StallEnds(c)

\* Clients register and create a room while the peer of a registered
\* connection may stop reading.  The event loop keeps running what is
\* ready; nothing obliges a client to send a frame or the keepalive to end
\* a stall.
SpecStall ==
    /\ InitObserved
    /\ [][NextStall]_vars
    /\ WF_vars(RunsStall)

\* The task of c is through with the frame it had: it is back at the head
\* of its read loop, waits there for the next frame, or is over.
Through(c) ==
    \/ pc[c] \in {"recv", "done"}
    \/ pc[c] = "loop" /\ cur = {c}

\* The task of c has a frame of one of the types in hand: it was made
\* runnable for it or took it from its buffer, and is not through with it.
InHand(c, types) == msg[c].type \in types /\ ~Through(c)

\* C40: whatever the transports of the other connections do, a handshake
\* and a create_room that a task has in hand complete: the task gets back
\* to its read loop.
C40_StalledPeerBlocksNobody ==
    \A c \in Conns :
        /\ InHand(c, {"connect"}) ~> Through(c)
        /\ InHand(c, {"create_room"}) ~> Through(c)

\* The part of C40 that is about the handshake.
C40_HandshakeCompletes ==
    \A c \in Conns : InHand(c, {"connect"}) ~> Through(c)


====
